---- MODULE Spec2Model ----
(***************************************************************************)
(* Snapshot / AMI lifecycle of devbox (src/src/devbox/lifecycle/           *)
(* snapshots.py): the four event handlers create_snapshots, create_image,  *)
(* mark_ready and delete_volume, the helper cleanup_ami_and_snapshots, the *)
(* two DynamoDB tables they share and the EC2 resources they act on.       *)
(*                                                                         *)
(* DynamoDB items are TLA+ records whose DOMAIN is the set of attributes   *)
(* present; a table is a function from the keys present to items.          *)
(* create_image runs as a process of six steps (the marking of the row,    *)
(* the reads up to the gate and the ManagedBy test, the deregistration and *)
(* snapshot deletion, each poll, register_image, the update of the project *)
(* record), between which other invocations and handlers may run; the      *)
(* other handlers are short and are taken as one step each.                *)
(*                                                                         *)
(* EC2 emits an event when the resource changes state and EventBridge may  *)
(* deliver it late and more than once: a handler is enabled for a resource *)
(* from the moment the event exists, and stays enabled.                    *)
(***************************************************************************)
EXTENDS Integers, FiniteSets, Sequences, TLC

\* ---------------------------------------------------------------- bounds
MaxInstances == 1      \* instances launched
MaxVols      == 2      \* volumes attached to one instance
MaxSnaps     == 3      \* snapshot ids EC2 hands out
MaxAmis      == 2      \* AMI ids register_image hands out
NumProcs     == 2      \* concurrent create_image invocations

\* SnapshotConfig.cleanup_max_attempts (a configuration value; the test of
\* the timeout sets it to 1, the default is 12).
cleanup_max_attempts == 2

\* SnapshotConfig.managed_by_tag
managed_by_tag == "devbox-lambda"

Projects  == {"p1"}
Instances == 1..MaxInstances
Vols      == 1..(MaxInstances * MaxVols)
BaseAmi   == 0                     \* the externally provided --base-ami
BaseSnap  == 0                     \* the snapshot that backs the base AMI
SnapIds   == 1..MaxSnaps           \* the ids create_snapshot hands out
AllSnaps  == {BaseSnap} \cup SnapIds
AmiIds    == {BaseAmi} \cup (1..MaxAmis)
Procs     == 1..NumProcs

\* Instance k has the volumes (k-1)*MaxVols+1 .. k*MaxVols: the instance a
\* volume belongs to, its index there, and the device it is attached as (the
\* first volume is the root device).
InstOfVol(v)   == ((v - 1) \div MaxVols) + 1
IdxOfVol(v)    == ((v - 1) % MaxVols) + 1
DeviceOf(v)    == IF IdxOfVol(v) = 1 THEN "/dev/sda1" ELSE "/dev/sdf"
RootDevice     == "/dev/sda1"

VARIABLES
    main,       \* MainTable: project -> item
    meta,       \* MetaTable: <<project, volumeId>> -> item
    inst,       \* EC2 instances: id -> [state, project, image_id, nvols]
    vols,       \* EC2 volumes: id -> "none" | "attached" | "available" | "deleted"
    snaps,      \* EC2 snapshots: id -> "none" | "exists" | "deleted"
    amis,       \* EC2 images: id -> [st, snaps, ManagedBy, project]
    proc,       \* create_image invocations: slot -> locals
    last        \* how a create_image invocation ended, if the last step ended one
                \* ("MissingAttachment": create_snapshots raised its ValueError;
                \* "ignored": a handler returned at its trigger filter)

vars == <<main, meta, inst, vols, snaps, amis, proc, last>>

\* ------------------------------------------------------- table primitives
EmptyTable == [k \in {} |-> [x |-> 0]]

\* Variant: the item's attributes are set on the item the key held.
put_item_Merge(table, key, item) ==
    [k \in DOMAIN table \cup {key} |->
        IF k # key THEN table[k]
        ELSE IF key \notin DOMAIN table THEN item
        ELSE [a \in DOMAIN table[key] \cup DOMAIN item |->
                 IF a \in DOMAIN item THEN item[a] ELSE table[key][a]]]

\* Table.put_item: the item replaces whatever the key held.
put_item(table, key, item) ==
    [k \in DOMAIN table \cup {key} |-> IF k = key THEN item ELSE table[k]]

\* Table.update_item with "SET a = :a, ...": attributes are set on the item,
\* which is created (holding its key and the attributes) when absent.
update_item(table, key, keyattrs, sets) ==
    LET old == IF key \in DOMAIN table THEN table[key] ELSE keyattrs
        new == [a \in DOMAIN old \cup DOMAIN sets |->
                   IF a \in DOMAIN sets THEN sets[a] ELSE old[a]]
    IN  put_item(table, key, new)

\* Table.delete_item
delete_item(table, key) == [k \in DOMAIN table \ {key} |-> table[k]]

\* meta_table.query(KeyConditionExpression=Key("project").eq(project)):
\* the keys of the project's rows.
MetaKeysOf(table, project) == {k \in DOMAIN table : k[1] = project}

\* meta_table.query(IndexName="SnapshotIndex", ...snapshotId == snap_id)
SnapshotIndex(table, snap_id) ==
    {k \in DOMAIN table : "snapshotId" \in DOMAIN table[k]
                          /\ table[k].snapshotId = snap_id}

\* ------------------------------------------------------------ EC2 helpers
NoInstance == [state |-> "none", project |-> "", image_id |-> BaseAmi, nvols |-> 0]
NoAmi      == [st |-> "none", snaps |-> {}, ManagedBy |-> "", project |-> ""]

\* describe_images(ImageIds=[a]) returns the image until it has vanished.
ImageVisible(a) == amis[a].st \in {"registered", "deregistered"}

\* What a call of describe_images(ImageIds=[a]) does: it answers (with the
\* image, or with no image once it has vanished), or raises a ClientError:
\* InvalidAMIID.NotFound, which EC2 may raise for an image that has vanished,
\* or any other error (throttling, authorization), at any time.
DescribeOutcomes == {"answer", "NotFound", "OtherError"}

DescribePossible(a, resp) == resp = "NotFound" => amis[a].st = "gone"

\* EC2 hands out ids in increasing order.
UsedSnaps == {s \in SnapIds : snaps[s] # "none"}
UsedAmis  == {a \in AmiIds \ {BaseAmi} : amis[a].st # "none"}
\* Variant: the snapshots created by one invocation all get the same id.
FreshSnap_Same(n) == Cardinality(UsedSnaps) + 1

FreshSnap(n) == Cardinality(UsedSnaps) + n
FreshAmi     == Cardinality(UsedAmis) + 1

\* instance.volumes.all(): the volumes attached to instance k.
AttachedVols(k) == {v \in Vols : InstOfVol(v) = k /\ vols[v] = "attached"}

\* The position of v among the volumes in vs, in id order (1-based).
Rank(v, vs) == Cardinality({w \in vs : w <= v})

\* ------------------------------------------------------------------ Init
IdleProc == [pc |-> "idle", project |-> "", mapped |-> {},
             old_ami |-> BaseAmi, attempts |-> 0, new_ami |-> BaseAmi]

\* The base AMI, and the AMI an earlier cycle of the project registered (what
\* create_image registers from one Meta row).
BaseImage  == [st |-> "registered", snaps |-> {BaseSnap}, ManagedBy |-> "",
               project |-> ""]
PriorImage(p) == [st |-> "registered", snaps |-> {1},
                  ManagedBy |-> managed_by_tag, project |-> p]

\* A project is new, or a cycle of it has ended earlier: its record is READY
\* and names the AMI that cycle registered from its snapshot, the Meta rows
\* of that cycle are deleted, its instance and volumes are gone.
Init ==
    /\ meta = EmptyTable
    /\ inst = [k \in Instances |-> NoInstance]
    /\ vols = [v \in Vols |-> "none"]
    /\ \/ /\ main = EmptyTable
          /\ snaps = [s \in AllSnaps |-> IF s = BaseSnap THEN "exists" ELSE "none"]
          /\ amis = [a \in AmiIds |-> IF a = BaseAmi THEN BaseImage ELSE NoAmi]
       \/ \E p \in Projects :
          /\ main = put_item(EmptyTable, p,
                        [project |-> p, VolumeCount |-> 1, Status |-> "READY",
                         AMI |-> 1, RootDeviceName |-> RootDevice,
                         Username |-> ""])
          /\ snaps = [s \in AllSnaps |->
                        IF s \in {BaseSnap, 1} THEN "exists" ELSE "none"]
          /\ amis = [a \in AmiIds |->
                       IF a = BaseAmi THEN BaseImage
                       ELSE IF a = 1 THEN PriorImage(p) ELSE NoAmi]
    /\ proc = [i \in Procs |-> IdleProc]
    /\ last = ""

\* ------------------------------------------------- environment (AWS, user)
\* launch.py: validate_project_status admits a project that is nonexistent or
\* READY; determine_ami picks the record's AMI, else the base AMI;
\* update_instance_status writes Status RUNNING and the AMI launched from.
\* Variant: only the failed cycle is refused.
LaunchAllowed_UnlessError(p) ==
    p \in DOMAIN main => "Status" \in DOMAIN main[p] /\ main[p].Status # "ERROR"

LaunchAllowed(p) ==
    IF p \in DOMAIN main
    THEN "Status" \in DOMAIN main[p] /\ main[p].Status = "READY"
    ELSE TRUE

LaunchAmi(p) == IF p \in DOMAIN main /\ "AMI" \in DOMAIN main[p]
                THEN main[p].AMI ELSE BaseAmi

Launch(p, n) ==
    LET k == Cardinality({j \in Instances : inst[j].state # "none"}) + 1
        image == LaunchAmi(p)
    IN  /\ k \in Instances
        /\ \A j \in Instances : inst[j].project = p => inst[j].state # "running"
        /\ LaunchAllowed(p)
        /\ amis[image].st = "registered"
        /\ inst' = [inst EXCEPT ![k] = [state |-> "running", project |-> p,
                                        image_id |-> image, nvols |-> n]]
        /\ vols' = [v \in Vols |->
                      IF InstOfVol(v) = k /\ IdxOfVol(v) <= n
                      THEN "attached" ELSE vols[v]]
        /\ main' = IF p \in DOMAIN main
                   THEN update_item(main, p, [project |-> p],
                                    [Status |-> "RUNNING", AMI |-> image])
                   ELSE put_item(main, p,
                                 [project |-> p, Status |-> "RUNNING",
                                  AMI |-> image, VolumeCount |-> n,
                                  RootDeviceName |-> RootDevice])
        /\ last' = ""
        /\ UNCHANGED <<meta, snaps, amis, proc>>

\* An instance that carries no Project tag is started in the account, with
\* n volumes (nothing of launch.py runs, no table is written).
LaunchForeign(n) ==
    LET k == Cardinality({j \in Instances : inst[j].state # "none"}) + 1
    IN  /\ k \in Instances
        /\ inst' = [inst EXCEPT ![k] = [state |-> "running", project |-> "",
                                        image_id |-> BaseAmi, nvols |-> n]]
        /\ vols' = [v \in Vols |->
                      IF InstOfVol(v) = k /\ IdxOfVol(v) <= n
                      THEN "attached" ELSE vols[v]]
        /\ last' = ""
        /\ UNCHANGED <<main, meta, snaps, amis, proc>>

\* The instance is terminated: EC2 emits its "shutting-down" event.
Shutdown(k) ==
    /\ inst[k].state = "running"
    /\ inst' = [inst EXCEPT ![k].state = "shutting-down"]
    /\ last' = ""
    /\ UNCHANGED <<main, meta, vols, snaps, amis, proc>>

\* The instance has terminated: its volumes detach and EC2 emits their
\* "available" events.
Terminate(k) ==
    /\ inst[k].state = "shutting-down"
    /\ inst' = [inst EXCEPT ![k].state = "terminated"]
    /\ vols' = [v \in Vols |->
                  IF InstOfVol(v) = k /\ vols[v] = "attached"
                  THEN "available" ELSE vols[v]]
    /\ last' = ""
    /\ UNCHANGED <<main, meta, snaps, amis, proc>>

\* A deregistered AMI stops being returned by describe_images.
AmiVanish(a) ==
    /\ amis[a].st = "deregistered"
    /\ amis' = [amis EXCEPT ![a].st = "gone"]
    /\ last' = ""
    /\ UNCHANGED <<main, meta, inst, vols, snaps, proc>>

\* ------------------------------------------------------- create_snapshots
\* The Username of the record being replaced ("" when there is none).
\* Variant: the existing record is not looked at.
ExistingUsername_Blank(project) == ""

ExistingUsername(project) ==
    IF project \in DOMAIN main /\ "Username" \in DOMAIN main[project]
    THEN main[project].Username ELSE ""

\* The project record create_snapshots writes.
SnapshotItem(k, project, vol_count) ==
    [project |-> project, VolumeCount |-> vol_count, Status |-> "SNAPSHOTTING",
     AMI |-> inst[k].image_id, RootDeviceName |-> RootDevice,
     Architecture |-> "x86_64", VirtualizationType |-> "hvm",
     LastInstanceType |-> "t3.medium", LastKeyPair |-> "key",
     Username |-> ExistingUsername(project)]

\* Variant: the device name is that of the root volume's attachment.
MetaItem_RootDevice(k, project, v, snap) ==
    [project |-> project, volumeId |-> v, instanceId |-> k,
     deviceName |-> RootDevice, snapshotId |-> snap, State |-> "PENDING"]

\* The Meta row create_snapshots writes for volume v and its snapshot snap.
MetaItem(k, project, v, snap) ==
    [project |-> project, volumeId |-> v, instanceId |-> k,
     deviceName |-> DeviceOf(v), snapshotId |-> snap, State |-> "PENDING"]

\* Variant: only the missing Project tag makes the handler return early.
NothingToSnapshot_TagOnly(project, vol_count) == project = ""

\* The two early returns: "if not project" and "if vol_count == 0".
NothingToSnapshot(project, vol_count) == project = "" \/ vol_count = 0

\* The username the handler puts into the record: that of the record read,
\* or "" when the get_item raised (read_ok is FALSE).
UsernameRead(project, read_ok) ==
    IF read_ok THEN ExistingUsername(project) ELSE ""

\* The loop over the volumes (in id order) creates a snapshot, then looks
\* for the volume's attachment to the instance and raises ValueError when
\* there is none, then writes the row. missing are the volumes without that
\* attachment: a snapshot is created for every volume up to the first of
\* them, a row is written for every volume before it.
\* Variant: a volume without the attachment is skipped.
WrittenVols_Skip(vs, missing) == vs \ missing

WrittenVols(vs, missing) == {v \in vs : \A w \in missing : v < w}

SnapshotCount(vs, missing) ==
    IF missing = {} THEN Cardinality(vs)
    ELSE Cardinality({v \in vs : \A w \in missing : v <= w})

\* create_snapshots for instance k, with the volumes that lack the
\* attachment and with the outcome of the get_item of the username.
CreateSnapshots(k, missing, read_ok) ==
    LET project == inst[k].project
        vs == AttachedVols(k)
        vol_count == Cardinality(vs)
        written == WrittenVols(vs, missing)
    IN  /\ inst[k].state \in {"shutting-down", "terminated"}
        /\ missing \subseteq vs
        /\ IF NothingToSnapshot(project, vol_count)
           THEN UNCHANGED <<main, meta, snaps>>
           ELSE /\ FreshSnap(SnapshotCount(vs, missing)) \in SnapIds
                /\ main' = put_item(main, project,
                                    [SnapshotItem(k, project, vol_count) EXCEPT
                                        !.Username = UsernameRead(project, read_ok)])
                /\ snaps' = [s \in AllSnaps |->
                               IF s \in FreshSnap(1)..FreshSnap(SnapshotCount(vs, missing))
                               THEN "exists" ELSE snaps[s]]
                /\ meta' = [key \in DOMAIN meta \cup {<<project, v>> : v \in written} |->
                              IF key[1] = project /\ key[2] \in written
                              THEN MetaItem(k, project, key[2],
                                            FreshSnap(Rank(key[2], vs)))
                              ELSE meta[key]]
        /\ last' = IF missing # {} /\ ~NothingToSnapshot(project, vol_count)
                   THEN "MissingAttachment" ELSE ""
        /\ UNCHANGED <<inst, vols, amis, proc>>

\* Delivery of the "shutting-down" event of instance k; EC2 has emitted it
\* once the instance shuts down, and it may be delivered again at any time.
\* (Every volume has its attachment and the get_item answers.)
create_snapshots(k) == CreateSnapshots(k, {}, TRUE)

\* ------------------------------------------------------------- mark_ready
\* main_table.scan(FilterExpression=Attr("AMI").eq(ami_id))
ScanMainByAmi(ami_id) ==
    {p \in DOMAIN main : "AMI" \in DOMAIN main[p] /\ main[p].AMI = ami_id}

\* items[0]["project"] of the scan.
ScannedProject(mainT, ami_id) ==
    CHOOSE p \in DOMAIN mainT : "AMI" \in DOMAIN mainT[p] /\ mainT[p].AMI = ami_id

\* Variant: the delete loop removes nothing.
MetaAfterReady_KeepsRows(metaT, project, failed) == metaT

\* Variant: the first delete_item that raises ends the loop, no row deleted.
MetaAfterReady_StopsAtFailure(metaT, project, failed) ==
    IF failed = {}
    THEN [key \in DOMAIN metaT \ MetaKeysOf(metaT, project) |-> metaT[key]]
    ELSE metaT

\* The Meta table after mark_ready's delete loop on the project's rows;
\* failed are the rows whose delete_item raised (logged and skipped).
MetaAfterReady(metaT, project, failed) ==
    [key \in DOMAIN metaT \ (MetaKeysOf(metaT, project) \ failed) |-> metaT[key]]

\* Variant: the record is deleted with the rows.
MainAfterReady_Delete(mainT, project) ==
    [k \in DOMAIN mainT \ {project} |-> mainT[k]]

\* Variant: the record is replaced by one that holds the key and the Status.
MainAfterReady_Replace(mainT, project) ==
    put_item(mainT, project, [project |-> project, Status |-> "READY"])

\* The Main table after mark_ready's update_item.
MainAfterReady(mainT, project) ==
    update_item(mainT, project, [project |-> project], [Status |-> "READY"])

\* mark_ready on tables mainT and metaT: the tables it leaves.
MarkReady(mainT, metaT, ami_id, failed) ==
    IF \E p \in DOMAIN mainT : "AMI" \in DOMAIN mainT[p] /\ mainT[p].AMI = ami_id
    THEN [main |-> MainAfterReady(mainT, ScannedProject(mainT, ami_id)),
          meta |-> MetaAfterReady(metaT, ScannedProject(mainT, ami_id), failed)]
    ELSE [main |-> mainT, meta |-> metaT]

\* Delivery of the "available" event of AMI ami_id, which EC2 has emitted
\* once register_image returned the id.
mark_ready(ami_id, failed) ==
    /\ ami_id # BaseAmi
    /\ amis[ami_id].st # "none"
    /\ IF ScanMainByAmi(ami_id) = {}
       THEN failed = {}
       ELSE failed \subseteq MetaKeysOf(meta, ScannedProject(main, ami_id))
    /\ main' = MarkReady(main, meta, ami_id, failed).main
    /\ meta' = MarkReady(main, meta, ami_id, failed).meta
    /\ last' = ""
    /\ UNCHANGED <<inst, vols, snaps, amis, proc>>

\* ---------------------------------------------------------- delete_volume
\* Variant: the scan has no filter.
ScanMetaByVolume_NoFilter(vol_id) == DOMAIN meta

\* meta_table.scan(FilterExpression=Attr("volumeId").eq(vol_id))
ScanMetaByVolume(vol_id) ==
    {key \in DOMAIN meta : "volumeId" \in DOMAIN meta[key]
                           /\ meta[key].volumeId = vol_id}

\* ec2_client.delete_volume: the volume is deleted; a ClientError (the volume
\* is gone already) is logged.
Ec2DeleteVolume(vol_id) ==
    [vols EXCEPT ![vol_id] = "deleted"]

\* Variant: the volume of any row found is deleted, whatever the row's State.
delete_volume_AnyState(vol_id) ==
    /\ vols[vol_id] \in {"available", "deleted"}
    /\ vols' = IF ScanMetaByVolume(vol_id) = {} THEN vols ELSE Ec2DeleteVolume(vol_id)
    /\ last' = ""
    /\ UNCHANGED <<main, meta, inst, snaps, amis, proc>>

\* Delivery of the "available" event of volume vol_id.
delete_volume(vol_id) ==
    LET items == ScanMetaByVolume(vol_id)
        key == CHOOSE x \in items : TRUE
        project == meta[key].project
        state_tag == meta[key].State
    IN  /\ vols[vol_id] \in {"available", "deleted"}
        /\ IF items = {}
           THEN UNCHANGED <<main, vols>>
           ELSE IF state_tag = "COMPLETED"
                THEN /\ vols' = Ec2DeleteVolume(vol_id)
                     /\ UNCHANGED main
                ELSE /\ main' = update_item(main, project, [project |-> project],
                                            [Status |-> "ERROR"])
                     /\ UNCHANGED vols
        /\ last' = ""
        /\ UNCHANGED <<meta, inst, snaps, amis, proc>>

\* ----------------------------------------------------------- create_image
\* How an invocation ends: a normal return, or an exception that propagates.
\* ("old_ami_missing" and "describe_error" are the two causes of the return
\* that logs "old ami not found"; "NotFound" is the ClientError with the code
\* InvalidAMIID.NotFound.)
Returns    == {"no_meta", "no_main", "waiting", "old_ami_missing",
               "describe_error", "registered"}
Exceptions == {"ValueError", "KeyError", "ClientError", "NotFound", "IndexError",
               "Timeout"}

Running(i) == proc[i].pc # "idle"

\* Invocation i takes one step: to == "" when it goes on (with locals next),
\* else the way it ends, which last shows until the next step of anyone.
Step(i, to, next) ==
    /\ proc' = [proc EXCEPT ![i] = IF to = "" THEN next ELSE IdleProc]
    /\ last' = to

\* The completion gate: done = sum(State == "COMPLETED"), required =
\* main_item["VolumeCount"]; the handler returns while done < required.
\* Variant: every row counts, whatever its State.
CompletedCount_AnyState(all_meta) == Cardinality(all_meta)

CompletedCount(all_meta) ==
    Cardinality({m \in all_meta : m.State = "COMPLETED"})

\* Variants: a gate that opens one completion early, and one that stays shut
\* when the count only equals VolumeCount.
MustWait_OneEarly(done, required) == done + 1 < required
MustWait_Strict(done, required) == done <= required

MustWait(done, required) == done < required

\* make_mapping needs the row's snapshotId and deviceName and the snapshot
\* itself (describe_snapshots raises for a snapshot that does not exist).
MappingError(all_meta) ==
    IF \E m \in all_meta : "snapshotId" \notin DOMAIN m \/ "deviceName" \notin DOMAIN m
    THEN "KeyError"
    ELSE IF \E m \in all_meta : snaps[m.snapshotId] # "exists"
         THEN "ClientError"
         ELSE IF all_meta = {} THEN "IndexError" ELSE ""

\* The snapshots of the block-device mappings built from all_meta.
MappingSnaps(all_meta) == {m.snapshotId : m \in all_meta}

\* Variant: every prior AMI is taken for one of the tool's own.
SelfManaged_AnyTag(a) == amis[a].st # "none"

\* tags.get("ManagedBy") == config.managed_by_tag
SelfManaged(a) == amis[a].ManagedBy = managed_by_tag

\* Delivery of the "succeeded" event of snapshot s (EC2 has emitted it once
\* the snapshot was created and completed) to the first free invocation
\* slot: the SnapshotIndex query and the update_item that marks the row
\* found COMPLETED.
\* Variant: no check of the number of rows; the first of them is taken.
NotOneItem_Unchecked(items) == FALSE

\* if len(items) != 1: raise ValueError(...)
NotOneItem(items) == Cardinality(items) # 1

\* Variant: the row is not written.
MarkCompleted_Skip(metaT, key) == metaT

\* meta_table.update_item(Key={project, volumeId}, SET State = COMPLETED)
MarkCompleted(metaT, key) ==
    update_item(metaT, key, [project |-> key[1], volumeId |-> key[2]],
                [State |-> "COMPLETED"])

ci_mark(i, s) ==
    LET items == SnapshotIndex(meta, s)
        key == CHOOSE k \in items : TRUE
    IN  /\ ~Running(i)
        /\ \A j \in Procs : j < i => Running(j)
        /\ snaps[s] # "none"
        /\ IF items = {}
           THEN Step(i, "no_meta", IdleProc) /\ UNCHANGED meta
           ELSE IF NotOneItem(items)
           THEN Step(i, "ValueError", IdleProc) /\ UNCHANGED meta
           ELSE /\ meta' = MarkCompleted(meta, key)
                /\ Step(i, "", [IdleProc EXCEPT !.pc = "count",
                                                !.project = key[1]])
        /\ UNCHANGED <<main, inst, vols, snaps, amis>>

\* Variant: the prior AMI is taken to exist whatever describe_images did.
OldAmiFound_Always(a, resp) == TRUE

\* The prior AMI is found when describe_images raises no ClientError and
\* returns an image.
OldAmiFound(a, resp) == resp = "answer" /\ ImageVisible(a)

\* get_item of the project record, the re-query of the project's Meta rows,
\* the gate, the mappings, and for a record that names a prior AMI its
\* describe_images (which does resp) and the ManagedBy test.
ci_count(i, resp) ==
    LET project == proc[i].project
        main_item == main[project]
        all_meta == {meta[k] : k \in MetaKeysOf(meta, project)}
        found == [proc[i] EXCEPT !.mapped = MappingSnaps(all_meta)]
        describes == /\ project \in DOMAIN main
                     /\ "VolumeCount" \in DOMAIN main_item
                     /\ ~MustWait(CompletedCount(all_meta), main_item.VolumeCount)
                     /\ MappingError(all_meta) = ""
                     /\ "AMI" \in DOMAIN main_item
    IN  /\ proc[i].pc = "count"
        /\ resp # "answer" => describes /\ DescribePossible(main_item.AMI, resp)
        /\ IF project \notin DOMAIN main
           THEN Step(i, "no_main", IdleProc)
           ELSE IF "VolumeCount" \notin DOMAIN main_item
           THEN Step(i, "KeyError", IdleProc)
           ELSE IF MustWait(CompletedCount(all_meta), main_item.VolumeCount)
           THEN Step(i, "waiting", IdleProc)
           ELSE IF MappingError(all_meta) # ""
           THEN Step(i, MappingError(all_meta), IdleProc)
           ELSE IF "AMI" \notin DOMAIN main_item
           THEN Step(i, "", [found EXCEPT !.pc = "register"])
           ELSE IF ~OldAmiFound(main_item.AMI, resp)
           THEN Step(i, IF resp = "OtherError" THEN "describe_error"
                                               ELSE "old_ami_missing", IdleProc)
           ELSE IF SelfManaged(main_item.AMI)
           THEN Step(i, "", [found EXCEPT !.pc = "cleanup",
                                          !.old_ami = main_item.AMI])
           ELSE Step(i, "", [found EXCEPT !.pc = "register"])
        /\ UNCHANGED <<main, meta, inst, vols, snaps, amis>>

\* snap.delete() succeeds on an existing snapshot that no registered AMI
\* uses; any failure is logged and the loop goes on.
SnapshotDeletable(s, images) ==
    /\ snaps[s] = "exists"
    /\ \A a \in AmiIds : images[a].st = "registered" => s \notin images[a].snaps

\* cleanup_ami_and_snapshots up to the polling: the backing snapshot ids are
\* read, image.deregister() is called (a ClientError unless the AMI is
\* registered), then the best-effort delete loop runs over the snapshots.
ci_cleanup(i) ==
    LET old_ami == proc[i].old_ami
        snapshot_ids == amis[old_ami].snaps
        amis1 == [amis EXCEPT ![old_ami].st = "deregistered"]
    IN  /\ proc[i].pc = "cleanup"
        /\ IF amis[old_ami].st # "registered"
           THEN /\ Step(i, "ClientError", IdleProc)
                /\ UNCHANGED <<amis, snaps>>
           ELSE /\ amis' = amis1
                /\ snaps' = [s \in AllSnaps |->
                               IF s \in snapshot_ids /\ SnapshotDeletable(s, amis1)
                               THEN "deleted" ELSE snaps[s]]
                /\ Step(i, "", [proc[i] EXCEPT !.pc = "poll"])
        /\ UNCHANGED <<main, meta, inst, vols>>

\* Variant: when the polls are used up the cleanup returns instead of raising.
ci_poll_ReturnsOnTimeout(i, resp) ==
    /\ proc[i].pc = "poll"
    /\ DescribePossible(proc[i].old_ami, resp)
    /\ IF resp # "answer"
       THEN Step(i, IF resp = "NotFound" THEN "NotFound" ELSE "ClientError", IdleProc)
       ELSE IF ~ImageVisible(proc[i].old_ami)
               \/ proc[i].attempts + 1 >= cleanup_max_attempts
       THEN Step(i, "", [proc[i] EXCEPT !.pc = "register"])
       ELSE Step(i, "", [proc[i] EXCEPT !.attempts = @ + 1])
    /\ UNCHANGED <<main, meta, inst, vols, snaps, amis>>

\* cleanup_ami_and_snapshots, third part: one describe_images poll (which
\* does resp). The loop ends at the first poll without the image; after
\* cleanup_max_attempts polls that returned it, RuntimeError("Timed out ...")
\* is raised. Nothing catches a ClientError of describe_images.
ci_poll(i, resp) ==
    /\ proc[i].pc = "poll"
    /\ DescribePossible(proc[i].old_ami, resp)
    /\ IF resp # "answer"
       THEN Step(i, IF resp = "NotFound" THEN "NotFound" ELSE "ClientError", IdleProc)
       ELSE IF ~ImageVisible(proc[i].old_ami)
       THEN Step(i, "", [proc[i] EXCEPT !.pc = "register"])
       ELSE IF proc[i].attempts + 1 >= cleanup_max_attempts
       THEN Step(i, "Timeout", IdleProc)
       ELSE Step(i, "", [proc[i] EXCEPT !.attempts = @ + 1])
    /\ UNCHANGED <<main, meta, inst, vols, snaps, amis>>

\* EC2 accepts register_image when every snapshot of the mappings exists and
\* no registered AMI carries the name f"{project}-ami"; otherwise it may
\* reject the call with a ClientError.
RegisterMayFail(project, mapped) ==
    \/ \E s \in mapped : snaps[s] # "exists"
    \/ \E a \in AmiIds \ {BaseAmi} : amis[a].st = "registered"
                                     /\ amis[a].project = project

\* ec2_client.register_image(**register_image_args)
ci_register(i, accepted) ==
    LET project == proc[i].project
        mapped == proc[i].mapped
        new_ami == FreshAmi
    IN  /\ proc[i].pc = "register"
        /\ IF accepted
           THEN /\ new_ami \in AmiIds
                /\ amis' = [amis EXCEPT ![new_ami] =
                              [st |-> "registered", snaps |-> mapped,
                               ManagedBy |-> managed_by_tag, project |-> project]]
                /\ Step(i, "", [proc[i] EXCEPT !.pc = "updatemain",
                                               !.new_ami = new_ami])
           ELSE /\ RegisterMayFail(project, mapped)
                /\ Step(i, "ClientError", IdleProc)
                /\ UNCHANGED amis
        /\ UNCHANGED <<main, meta, inst, vols, snaps>>

\* main_table.update_item(Key={project}, SET AMI = new_ami, Status = IMAGING)
ci_updatemain(i) ==
    LET project == proc[i].project
    IN  /\ proc[i].pc = "updatemain"
        /\ main' = update_item(main, project, [project |-> project],
                               [AMI |-> proc[i].new_ami, Status |-> "IMAGING"])
        /\ Step(i, "registered", IdleProc)
        /\ UNCHANGED <<meta, inst, vols, snaps, amis>>

create_image(i) ==
    \/ \E s \in SnapIds : ci_mark(i, s)
    \/ \E resp \in DescribeOutcomes : ci_count(i, resp)
    \/ ci_cleanup(i)
    \/ \E resp \in DescribeOutcomes : ci_poll(i, resp)
    \/ \E accepted \in BOOLEAN : ci_register(i, accepted)
    \/ ci_updatemain(i)

\* ------------------------------------------------------------------- Next
Next ==
    \/ \E p \in Projects, n \in 1..MaxVols : Launch(p, n)
    \/ \E n \in 1..MaxVols : LaunchForeign(n)
    \/ \E k \in Instances : Shutdown(k)
    \/ \E k \in Instances : Terminate(k)
    \/ \E a \in AmiIds : AmiVanish(a)
    \/ \E k \in Instances : create_snapshots(k)
    \/ \E i \in Procs : create_image(i)
    \/ \E a \in AmiIds, failed \in SUBSET DOMAIN meta : mark_ready(a, failed)
    \/ \E v \in Vols : delete_volume(v)

Spec == Init /\ [][Next]_vars

\* ------------------------------------------------------- views of the state
\* item["Status"] of the project record, "nonexistent" without record or Status
\* (as devbox_manager and launch.py read it).
StatusOf(p) ==
    IF p \in DOMAIN main /\ "Status" \in DOMAIN main[p]
    THEN main[p].Status ELSE "nonexistent"

\* The same of the record a step leaves.
StatusAfter(p) ==
    IF p \in DOMAIN main' /\ "Status" \in DOMAIN main'[p]
    THEN main'[p].Status ELSE "nonexistent"

\* The project's Meta rows.
RowsOf(p) == {meta[k] : k \in MetaKeysOf(meta, p)}

NoneRunning == \A i \in Procs : ~Running(i)

\* The instance of project p launched last.
LastInstance(p) ==
    CHOOSE k \in Instances :
        /\ inst[k].project = p
        /\ \A j \in Instances : inst[j].project = p => j <= k

\* --------------------------------------------- the cycle without faults
\* Every event is delivered once, in causal order, and a handler runs to its
\* end before the next event is delivered: the shutdown event of the
\* project's instance while the record is RUNNING, a snapshot's event while
\* its row is PENDING, an AMI's event while the record that names it is
\* IMAGING; no delete_item fails and every describe_images answers.
ShutdownEventDue(k) ==
    /\ NoneRunning
    /\ AttachedVols(k) # {}
    /\ StatusOf(inst[k].project) = "RUNNING"
    /\ k = LastInstance(inst[k].project)

SnapshotEventDue(s) ==
    /\ NoneRunning
    /\ \E key \in SnapshotIndex(meta, s) : meta[key].State = "PENDING"

AmiEventDue(a) ==
    /\ NoneRunning
    /\ \E p \in ScanMainByAmi(a) : StatusOf(p) = "IMAGING"

HandlersA ==
    \/ \E k \in Instances : ShutdownEventDue(k) /\ create_snapshots(k)
    \/ \E s \in SnapIds : SnapshotEventDue(s) /\ ci_mark(1, s)
    \/ ci_count(1, "answer")
    \/ ci_cleanup(1)
    \/ ci_poll(1, "answer")
    \/ \E accepted \in BOOLEAN : ci_register(1, accepted)
    \/ ci_updatemain(1)
    \/ \E a \in AmiIds : AmiEventDue(a) /\ mark_ready(a, {})

NextA ==
    \/ \E p \in Projects, n \in 1..MaxVols : Launch(p, n)
    \/ \E k \in Instances : Shutdown(k)
    \/ \E k \in Instances : Terminate(k)
    \/ \E a \in AmiIds : AmiVanish(a)
    \/ HandlersA

\* The events that are due get delivered and a handler that runs goes on.
SpecA == Init /\ [][NextA]_vars /\ WF_vars(HandlersA)

\* The gate of create_image on the tables as they are now.
GateOpen(p) ==
    /\ p \in DOMAIN main
    /\ "VolumeCount" \in DOMAIN main[p]
    /\ CompletedCount(RowsOf(p)) >= main[p].VolumeCount

\* ================================================================== C1
\* C1 as stated: under any interleaving, whenever an invocation of
\* create_image calls register_image for a project, the project's COMPLETED
\* rows number at least the record's VolumeCount at that moment.
C1_NeverRegistersBelowCount ==
    [][\A i \in Procs :
          (proc[i].pc = "register" /\ proc'[i].pc # "register")
              => GateOpen(proc[i].project)]_vars

\* C1, amended: an invocation of create_image marks its own row COMPLETED
\* first and goes on towards register_image only if its own re-query counted
\* at least VolumeCount rows COMPLETED; when it counts fewer it returns and
\* leaves the project record (and every AMI) untouched; register_image is
\* reached on no other way than through this gate.
C1_GateOnOwnReads ==
    [][\A i \in Procs :
          /\ (proc[i].pc = "idle" /\ proc'[i].pc = "count")
                => /\ main' = main
                   /\ \E key \in DOMAIN meta' :
                          /\ key[1] = proc'[i].project
                          /\ meta'[key].State = "COMPLETED"
                          /\ \A k2 \in DOMAIN meta \ {key} : meta'[k2] = meta[k2]
          /\ (proc[i].pc = "count" /\ proc'[i].pc \in {"cleanup", "register"})
                => GateOpen(proc[i].project)
          /\ (/\ proc[i].pc = "count" /\ proc'[i].pc # "count"
              /\ proc[i].project \in DOMAIN main
              /\ "VolumeCount" \in DOMAIN main[proc[i].project]
              /\ ~GateOpen(proc[i].project))
                => /\ proc'[i].pc = "idle" /\ last' = "waiting"
                   /\ main' = main /\ meta' = meta /\ amis' = amis
          /\ (proc'[i].pc = "cleanup" /\ proc[i].pc # "cleanup")
                => proc[i].pc = "count"
          /\ (proc'[i].pc = "poll" /\ proc[i].pc # "poll")
                => proc[i].pc = "cleanup"
          /\ (proc'[i].pc = "register" /\ proc[i].pc # "register")
                => proc[i].pc \in {"count", "poll"}]_vars

\* An invocation has just returned at the gate: one row of two is COMPLETED,
\* the record is still SNAPSHOTTING and names the launch AMI.
C1_Witness ==
    /\ last = "waiting"
    /\ \E p \in DOMAIN main :
          /\ StatusOf(p) = "SNAPSHOTTING"
          /\ CompletedCount(RowsOf(p)) = 1
          /\ main[p].VolumeCount = 2
          /\ main[p].AMI = inst[LastInstance(p)].image_id

\* ================================================================== C2
\* C2: in every reachable state in which a project's Status is IMAGING or
\* READY, the AMI named in the project record is registered and every
\* snapshot that backs it exists.
C2_NoDataLoss ==
    \A p \in DOMAIN main :
        (StatusOf(p) \in {"IMAGING", "READY"} /\ "AMI" \in DOMAIN main[p])
            => /\ amis[main[p].AMI].st = "registered"
               /\ \A s \in amis[main[p].AMI].snaps : snaps[s] = "exists"

\* ================================================================== C3
\* The cleanup of the prior AMI timed out: no invocation runs, every row is
\* COMPLETED, and the record is still SNAPSHOTTING and names the prior AMI,
\* which is deregistered; no AMI was registered, so no AMI event will come.
CleanupTimedOut(p) ==
    /\ NoneRunning
    /\ StatusOf(p) = "SNAPSHOTTING"
    /\ \A m \in RowsOf(p) : m.State = "COMPLETED"
    /\ amis[main[p].AMI].st \in {"deregistered", "gone"}

\* C3: when each event of a cycle is delivered once and in causal order, the
\* record passes through SNAPSHOTTING, then IMAGING, then READY and through
\* nothing else; an AMI is registered only when all n rows of the project
\* (n = VolumeCount = the volumes the instance had) are COMPLETED, from
\* their snapshots; once the record is READY after the cycle the project has
\* no Meta rows and its AMI field holds the id registered in the cycle, a
\* registered AMI other than the launch AMI; and a record that is
\* SNAPSHOTTING does become READY, unless the cleanup of the prior AMI timed
\* out (then no AMI is registered and no AMI event exists to be delivered).
\* (RUNNING is what launch.py writes when the instance starts.)
C3_HappyPath ==
    /\ [][\A p \in Projects :
             StatusAfter(p) # StatusOf(p)
                 => <<StatusOf(p), StatusAfter(p)>> \in
                        {<<"nonexistent", "RUNNING">>, <<"READY", "RUNNING">>,
                         <<"RUNNING", "SNAPSHOTTING">>,
                         <<"SNAPSHOTTING", "IMAGING">>, <<"IMAGING", "READY">>}]_vars
    /\ [][\A a \in AmiIds :
             (amis[a].st = "none" /\ amis'[a].st = "registered")
                 => LET p == amis'[a].project
                    IN  /\ StatusOf(p) = "SNAPSHOTTING"
                        /\ Cardinality(RowsOf(p)) = main[p].VolumeCount
                        /\ main[p].VolumeCount = inst[LastInstance(p)].nvols
                        /\ \A m \in RowsOf(p) : m.State = "COMPLETED"
                        /\ amis'[a].snaps = {m.snapshotId : m \in RowsOf(p)}]_vars
    /\ [](\A p \in Projects :
             (/\ StatusOf(p) = "READY"
              /\ \E k \in Instances : inst[k].project = p)
                 => /\ RowsOf(p) = {}
                    /\ main[p].AMI # inst[LastInstance(p)].image_id
                    /\ amis[main[p].AMI].st = "registered"
                    /\ amis[main[p].AMI].project = p
                    /\ Cardinality(amis[main[p].AMI].snaps)
                           = inst[LastInstance(p)].nvols)
    /\ \A p \in Projects :
          (StatusOf(p) = "SNAPSHOTTING")
              ~> (StatusOf(p) = "READY" \/ CleanupTimedOut(p))

\* A cycle of an instance with two volumes has ended: READY, no rows, the AMI
\* field names the AMI registered from the two snapshots.
C3_Witness ==
    \E p \in DOMAIN main :
        /\ StatusOf(p) = "READY"
        /\ \E k \in Instances : inst[k].project = p /\ inst[k].nvols = 2
        /\ RowsOf(p) = {}
        /\ main[p].AMI # inst[LastInstance(p)].image_id
        /\ Cardinality(amis[main[p].AMI].snaps) = 2

C5_CleanupOnlyOfManaged ==
    /\ [](\A a \in AmiIds :
             (amis[a].st # "none" /\ amis[a].ManagedBy # managed_by_tag)
                 => /\ amis[a].st = "registered"
                    /\ \A s \in amis[a].snaps : snaps[s] = "exists")
    /\ [][\A i \in Procs :
             (proc'[i].pc = "cleanup" /\ proc[i].pc # "cleanup")
                 => /\ "AMI" \in DOMAIN main[proc[i].project]
                    /\ proc'[i].old_ami = main[proc[i].project].AMI
                    /\ amis[proc'[i].old_ami].ManagedBy = managed_by_tag]_vars
    /\ [][\A a \in AmiIds :
             (amis[a].st = "registered" /\ amis'[a].st # "registered")
                 => /\ amis[a].ManagedBy = managed_by_tag
                    /\ \E i \in Procs : proc[i].pc = "cleanup" /\ proc[i].old_ami = a]_vars
    /\ [][\A i \in Procs :
             LET p == proc[i].project
             IN  (/\ proc[i].pc = "count" /\ proc'[i].pc # "count"
                  /\ GateOpen(p) /\ MappingError(RowsOf(p)) = ""
                  /\ "AMI" \in DOMAIN main[p]
                  /\ amis[main[p].AMI].st = "registered"
                  /\ amis[main[p].AMI].ManagedBy # managed_by_tag)
                     => /\ \/ proc'[i].pc = "register"
                           \/ proc'[i].pc = "idle" /\ last' = "describe_error"
                        /\ amis' = amis /\ snaps' = snaps]_vars
    /\ [][\A i \in Procs :
             (proc[i].pc = "updatemain" /\ proc'[i].pc # "updatemain")
                 => /\ StatusAfter(proc[i].project) = "IMAGING"
                    /\ main'[proc[i].project].AMI = proc[i].new_ami
                    /\ amis[proc[i].new_ami].ManagedBy = managed_by_tag]_vars

\* A project launched from the base AMI has its first AMI registered and is
\* IMAGING; the base AMI and its snapshot are as they were.
C5_Witness ==
    \E p \in DOMAIN main :
        /\ StatusOf(p) = "IMAGING"
        /\ inst[LastInstance(p)].image_id = BaseAmi
        /\ main[p].AMI # BaseAmi
        /\ amis[main[p].AMI].st = "registered"
        /\ amis[BaseAmi].st = "registered"
        /\ snaps[BaseSnap] = "exists"

\* ================================================================== C6
\* C6: an invocation reaches register_image either from the gate, when the
\* record names no self-managed prior AMI, or from a poll of the cleanup
\* that did not see the prior AMI; so while it registers and writes the
\* record the prior AMI it cleaned up is gone. A cleanup that uses up its
\* polls ends the invocation with the timeout error, and one whose poll
\* raised a ClientError ends it with that error: no AMI is registered and
\* the project record is not written.
C6_CleanupBeforeRegister ==
    /\ [][\A i \in Procs :
             (proc'[i].pc = "register" /\ proc[i].pc # "register")
                 => \/ /\ proc[i].pc = "poll"
                       /\ ~ImageVisible(proc[i].old_ami)
                    \/ /\ proc[i].pc = "count"
                       /\ \/ "AMI" \notin DOMAIN main[proc[i].project]
                          \/ amis[main[proc[i].project].AMI].ManagedBy
                                 # managed_by_tag]_vars
    /\ [](\A i \in Procs :
             (proc[i].pc \in {"register", "updatemain"} /\ proc[i].old_ami # BaseAmi)
                 => amis[proc[i].old_ami].st = "gone")
    /\ [][\A i \in Procs :
             (proc[i].pc = "poll" /\ proc'[i].pc = "idle")
                 => /\ last' \in {"Timeout", "ClientError", "NotFound"}
                    /\ last' = "Timeout" => ImageVisible(proc[i].old_ami)
                    /\ main' = main /\ amis' = amis]_vars

\* The cleanup has just timed out: the prior AMI is deregistered but still
\* returned by describe_images, no AMI has replaced it, and the record still
\* is SNAPSHOTTING and names it.
C6_Witness ==
    /\ last = "Timeout"
    /\ \E p \in DOMAIN main :
          /\ StatusOf(p) = "SNAPSHOTTING"
          /\ amis[main[p].AMI].st = "deregistered"
          /\ amis[main[p].AMI].ManagedBy = managed_by_tag
          /\ \A a \in AmiIds \ {BaseAmi} : amis[a].st # "registered"

\* ================================================================== C7
\* C7: once a project's Status is ERROR no handler changes it (other than
\* the create_snapshots of a later shutdown, which the claim does not speak
\* of) and no AMI is registered for the project.
C7_ErrorAbsorbing ==
    [][\A p \in Projects :
          StatusOf(p) = "ERROR"
              => /\ StatusAfter(p) \in {"ERROR", "SNAPSHOTTING"}
                 /\ \A a \in AmiIds :
                        (amis[a].st = "none" /\ amis'[a].st = "registered")
                            => amis'[a].project # p]_vars

\* ================================================================== C8
\* The Status of a launched project as the state machine of the handlers
\* sees it: the RUNNING that launch.py writes stands for READY.
HandlerStatus(s) == IF s = "RUNNING" THEN "READY" ELSE s

\* C8: every change of a project's Status is one of the state machine:
\* to SNAPSHOTTING from no record or READY, to IMAGING from SNAPSHOTTING, to
\* READY from IMAGING, to ERROR from SNAPSHOTTING or IMAGING (and, by the
\* launch, from no record to READY).
C8_StatusStateMachine ==
    [][\A p \in Projects :
          HandlerStatus(StatusAfter(p)) # HandlerStatus(StatusOf(p))
              => <<HandlerStatus(StatusOf(p)), HandlerStatus(StatusAfter(p))>> \in
                     {<<"nonexistent", "READY">>,
                      <<"nonexistent", "SNAPSHOTTING">>, <<"READY", "SNAPSHOTTING">>,
                      <<"SNAPSHOTTING", "IMAGING">>, <<"IMAGING", "READY">>,
                      <<"SNAPSHOTTING", "ERROR">>, <<"IMAGING", "ERROR">>}]_vars

\* ================================================================== C9
\* C9: the way an invocation of create_image takes at the gate depends on
\* the rows and VolumeCount it reads and on the prior AMI only: whatever the
\* Status is and whatever another invocation has done, when the rows
\* COMPLETED number VolumeCount (and the mappings can be built and the prior
\* AMI is there, its describe_images raising no error) the invocation goes
\* on towards register_image. So two invocations for the last completions of a project
\* can both go on and both register an AMI.
C9_GateIgnoresStatus ==
    [][\A i \in Procs :
          LET p == proc[i].project
          IN  (/\ proc[i].pc = "count" /\ proc'[i].pc # "count"
               /\ GateOpen(p)
               /\ MappingError(RowsOf(p)) = ""
               /\ "AMI" \in DOMAIN main[p] => ImageVisible(main[p].AMI))
                  => \/ /\ proc'[i].pc \in {"cleanup", "register"}
                        /\ proc'[i].mapped = {m.snapshotId : m \in RowsOf(p)}
                     \/ /\ proc'[i].pc = "idle"
                        /\ last' = "describe_error"]_vars

\* Two invocations for one project have both passed the gate on the same
\* rows and both had register_image return an AMI id: two AMIs registered
\* from the same snapshots in one cycle.
C9_Witness ==
    \E i, j \in Procs :
        /\ i # j
        /\ proc[i].pc = "updatemain" /\ proc[j].pc = "updatemain"
        /\ proc[i].project = proc[j].project
        /\ proc[i].mapped = proc[j].mapped
        /\ proc[i].new_ami # proc[j].new_ami
        /\ amis[proc[i].new_ami].st = "registered"
        /\ amis[proc[j].new_ami].st = "registered"
        /\ amis[proc[i].new_ami].snaps = amis[proc[j].new_ami].snaps

\* ================================================================= C10
\* C10: for an AMI whose event exists and that a project record names: a
\* delivery to mark_ready leaves the project READY with just the rows whose
\* delete failed, so with no rows when no delete fails; a second delivery
\* for the same AMI finds the project by the same scan, deletes what is
\* left, leaves the project READY with no rows and changes nothing else; a
\* second delivery after a first without failures changes nothing at all.
C10_ReadyIdempotent ==
    \A a \in AmiIds \ {BaseAmi} :
        (amis[a].st # "none" /\ ScanMainByAmi(a) # {})
            => LET p == ScannedProject(main, a)
               IN  \A failed \in SUBSET MetaKeysOf(meta, p) :
                       LET once == MarkReady(main, meta, a, failed)
                           twice == MarkReady(once.main, once.meta, a, {})
                       IN  /\ once.main[p].Status = "READY"
                           /\ MetaKeysOf(once.meta, p) = failed
                           /\ twice.main[p].Status = "READY"
                           /\ MetaKeysOf(twice.meta, p) = {}
                           /\ twice.main = once.main
                           /\ failed = {} => twice = once
                           /\ \A key \in DOMAIN meta \ MetaKeysOf(meta, p) :
                                  /\ key \in DOMAIN twice.meta
                                  /\ twice.meta[key] = meta[key]

\* A project launched from the base AMI is READY with no rows and names the
\* AMI registered in its cycle: mark_ready has been delivered that AMI's
\* event, and can be delivered it again.
C10_Witness ==
    \E p \in DOMAIN main :
        /\ StatusOf(p) = "READY"
        /\ RowsOf(p) = {}
        /\ \E k \in Instances : inst[k].project = p /\ inst[k].image_id = BaseAmi
        /\ main[p].AMI # BaseAmi
        /\ amis[main[p].AMI].st = "registered"
        /\ MarkReady(main, meta, main[p].AMI, {}) = [main |-> main, meta |-> meta]

\* ================================================================== C13
\* C13: an invocation of create_image that passes the gate (the rows
\* COMPLETED number VolumeCount and the mappings can be built) for a record
\* naming a prior AMI that describe_images does not return, be it an empty
\* result or a ClientError, returns normally: it registers no AMI,
\* deregisters none, deletes no snapshot and leaves the project record, its
\* AMI and Status included, as it was.
C13_AbandonOnMissingAmi ==
    [][\A i \in Procs :
          LET p == proc[i].project
          IN  (/\ proc[i].pc = "count" /\ proc'[i].pc # "count"
               /\ GateOpen(p)
               /\ MappingError(RowsOf(p)) = ""
               /\ "AMI" \in DOMAIN main[p]
               /\ ~ImageVisible(main[p].AMI) \/ last' = "describe_error")
                  => /\ proc'[i] = IdleProc
                     /\ last' \in {"old_ami_missing", "describe_error"}
                     /\ last' \in Returns
                     /\ main' = main /\ amis' = amis /\ snaps' = snaps]_vars

\* An invocation has just abandoned: every row of the SNAPSHOTTING project is
\* COMPLETED and the AMI its record names is not returned any more.
C13_Witness ==
    /\ last = "old_ami_missing"
    /\ \E p \in DOMAIN main :
          /\ StatusOf(p) = "SNAPSHOTTING"
          /\ GateOpen(p)
          /\ "AMI" \in DOMAIN main[p]
          /\ ~ImageVisible(main[p].AMI)

\* ================================================================== C14
\* C14: in the polls of cleanup_ami_and_snapshots a describe_images error
\* saying the AMI is not found counts as success, so no poll ends the
\* invocation with that error; only the timeout and the other ClientErrors
\* reach the caller.
C14_NotFoundIsSuccess ==
    [][\A i \in Procs :
          (proc[i].pc = "poll" /\ proc'[i].pc = "idle")
              => last' \in {"Timeout", "ClientError"}]_vars

\* ================================================================== C11
\* The SnapshotIndex of a test double: a project is SNAPSHOTTING after the
\* shutdown of an instance launched from the AMI of its earlier cycle, with
\* one Meta row per volume, PENDING or COMPLETED, and the snapshot ids of
\* the rows may coincide. Only create_image runs (and EC2 forgets
\* deregistered AMIs).
InitT ==
    \E p \in Projects, n \in 1..MaxVols :
    \E ids \in [1..n -> 2..MaxSnaps], sts \in [1..n -> {"PENDING", "COMPLETED"}] :
        /\ main = put_item(EmptyTable, p,
                      [project |-> p, VolumeCount |-> n, Status |-> "SNAPSHOTTING",
                       AMI |-> 1, RootDeviceName |-> RootDevice, Username |-> ""])
        /\ meta = [key \in {p} \X (1..n) |->
                      [MetaItem(1, p, key[2], ids[key[2]])
                          EXCEPT !.State = sts[key[2]]]]
        /\ inst = [k \in Instances |->
                      IF k = 1 THEN [state |-> "terminated", project |-> p,
                                     image_id |-> 1, nvols |-> n]
                      ELSE NoInstance]
        /\ vols = [v \in Vols |-> IF v \in 1..n THEN "available" ELSE "none"]
        /\ snaps = [s \in AllSnaps |->
                      IF s \in {BaseSnap, 1} \/ \E v \in 1..n : ids[v] = s
                      THEN "exists" ELSE "none"]
        /\ amis = [a \in AmiIds |->
                     IF a = BaseAmi THEN BaseImage
                     ELSE IF a = 1 THEN PriorImage(p) ELSE NoAmi]
        /\ proc = [i \in Procs |-> IdleProc]
        /\ last = ""

NextT ==
    \/ \E i \in Procs : create_image(i)
    \/ \E a \in AmiIds : AmiVanish(a)

SpecT == InitT /\ [][NextT]_vars

\* The snapshot ids the SnapshotIndex returns more than one row for.
Duplicated == {s \in SnapIds : Cardinality(SnapshotIndex(meta, s)) > 1}

\* C11: when the SnapshotIndex lookup of create_image returns more than one
\* row, the invocation raises ValueError and has changed nothing: the rows
\* of a snapshot id with several rows are never written, the step that
\* raises leaves both tables, the AMIs and the snapshots as they were, and
\* while every snapshot id with rows has several, each lookup ends the
\* invocation, with ValueError or because no row matched.
C11_DuplicateRowsFatal ==
    [][\A i \in Procs :
          (/\ proc[i].pc = "idle"
           /\ proc'[i].pc = "count" \/ last' \in {"ValueError", "no_meta"})
              => /\ \A s \in Duplicated :
                       \A k \in SnapshotIndex(meta, s) :
                           k \in DOMAIN meta' /\ meta'[k] = meta[k]
                 /\ last' = "ValueError"
                       => /\ Duplicated # {}
                          /\ proc'[i] = IdleProc
                          /\ main' = main /\ meta' = meta
                          /\ amis' = amis /\ snaps' = snaps
                 /\ (\A k \in DOMAIN meta : meta[k].snapshotId \in Duplicated)
                       => last' \in {"ValueError", "no_meta"}]_vars

\* An invocation has just raised ValueError: two rows, one still PENDING,
\* carry the same snapshot id.
C11_Witness ==
    /\ last = "ValueError"
    /\ \E k1, k2 \in DOMAIN meta :
          /\ k1 # k2
          /\ meta[k1].snapshotId = meta[k2].snapshotId
          /\ meta[k1].State = "PENDING"

\* ================================================================== C12
\* The AMIs registered since the project's last instance was launched
\* (register_image hands out increasing ids).
CycleAmis(p) ==
    {a \in AmiIds \ {BaseAmi} :
        amis[a].st # "none" /\ a > inst[LastInstance(p)].image_id}

\* C12: when each snapshot event of a cycle is delivered once and the
\* invocations run one after the other, an invocation that finds fewer rows
\* COMPLETED than VolumeCount returns without registering an AMI or writing
\* the record; register_image is called with every one of the VolumeCount
\* rows COMPLETED and returns an id not used before; the record then gets
\* that id as AMI and Status IMAGING; and over the cycle no AMI is
\* registered while the record is RUNNING or SNAPSHOTTING (but for the one
\* about to be written) and exactly one, the record's AMI, once it is
\* IMAGING or READY.
C12_OneRegistrationPerCycle ==
    /\ [][\A i \in Procs :
             LET p == proc[i].project
             IN  (/\ proc[i].pc = "count" /\ proc'[i].pc # "count"
                  /\ p \in DOMAIN main
                  /\ CompletedCount(RowsOf(p)) < main[p].VolumeCount)
                     => /\ last' = "waiting"
                        /\ amis' = amis /\ main' = main]_vars
    /\ [][\A i \in Procs :
             LET p == proc[i].project
             IN  (proc[i].pc = "register" /\ proc'[i].pc = "updatemain")
                     => /\ amis[proc'[i].new_ami].st = "none"
                        /\ amis'[proc'[i].new_ami].st = "registered"
                        /\ \A a \in AmiIds \ {proc'[i].new_ami} : amis'[a] = amis[a]
                        /\ Cardinality(RowsOf(p)) = main[p].VolumeCount
                        /\ \A m \in RowsOf(p) : m.State = "COMPLETED"]_vars
    /\ [][\A i \in Procs :
             LET p == proc[i].project
             IN  (proc[i].pc = "updatemain" /\ proc'[i].pc # "updatemain")
                     => /\ last' = "registered"
                        /\ StatusAfter(p) = "IMAGING"
                        /\ main'[p].AMI = proc[i].new_ami
                        /\ CycleAmis(p) = {proc[i].new_ami}]_vars
    /\ [](\A p \in Projects :
             (\E k \in Instances : inst[k].project = p)
                 => /\ (/\ StatusOf(p) \in {"RUNNING", "SNAPSHOTTING"}
                        /\ \A i \in Procs : proc[i].pc # "updatemain")
                           => CycleAmis(p) = {}
                    /\ StatusOf(p) \in {"IMAGING", "READY"}
                           => CycleAmis(p) = {main[p].AMI})

\* The second of the two snapshot events of a cycle has just had its AMI
\* registered and written: the only AMI of the cycle.
C12_Witness ==
    /\ last = "registered"
    /\ \E p \in DOMAIN main :
          /\ StatusOf(p) = "IMAGING"
          /\ main[p].VolumeCount = 2
          /\ \E k \in Instances : inst[k].project = p /\ inst[k].nvols = 2
          /\ Cardinality(amis[main[p].AMI].snaps) = 2
          /\ \A m \in RowsOf(p) : m.State = "COMPLETED"

\* ================================================================== C18
\* C18: EC2 handing out a fresh id for every snapshot, in every state the
\* handlers reach no two Meta rows carry the same snapshotId, a project has
\* at most one row per volume id, no SnapshotIndex lookup can return more
\* than one row, and no invocation of create_image has ended with the
\* ValueError of that fault.
C18_SnapshotIdsUnique ==
    /\ \A k1, k2 \in DOMAIN meta :
          k1 # k2 => meta[k1].snapshotId # meta[k2].snapshotId
    /\ \A p \in Projects, v \in Vols :
          Cardinality({k \in MetaKeysOf(meta, p) : meta[k].volumeId = v}) <= 1
    /\ Duplicated = {}
    /\ last # "ValueError"

\* A project has two rows, written by one create_snapshots, and a lookup of
\* create_image has found the one row of its snapshot.
C18_Witness ==
    \E p \in DOMAIN main, i \in Procs :
        /\ Cardinality(RowsOf(p)) = 2
        /\ proc[i].pc = "count"
        /\ proc[i].project = p

\* ================================================================== C19
\* C19: a delivery of the shutdown event of an instance that has no Project
\* tag, or that has no volume attached, to create_snapshots writes nothing
\* to the Main table, nothing to the Meta table and creates no snapshot.
C19_NoSideEffects ==
    [][\A k \in Instances :
          (/\ create_snapshots(k)
           /\ inst[k].project = "" \/ AttachedVols(k) = {})
              => /\ main' = main
                 /\ meta' = meta
                 /\ snaps' = snaps]_vars

\* An instance without Project tag is shutting down with two volumes
\* attached, and the tables are empty and no snapshot exists; and a tagged
\* instance has terminated, its volumes detached, its record still RUNNING.
C19_Witness ==
    \/ \E k \in Instances :
          /\ inst[k].state = "shutting-down"
          /\ inst[k].project = ""
          /\ Cardinality(AttachedVols(k)) = 2
          /\ main = EmptyTable /\ meta = EmptyTable /\ UsedSnaps = {}
    \/ \E k \in Instances :
          /\ inst[k].state = "terminated"
          /\ inst[k].project # ""
          /\ AttachedVols(k) = {}
          /\ StatusOf(inst[k].project) = "RUNNING"
          /\ RowsOf(inst[k].project) = {}

\* ================================================================== C20
\* C20: a delivery of the shutdown event of an instance with a Project tag
\* and n >= 1 attached volumes to create_snapshots leaves the project
\* record with Status SNAPSHOTTING and VolumeCount n, creates exactly n
\* snapshots, and leaves for each attached volume a Meta row in State
\* PENDING that names this instance, the device the volume is attached as,
\* and one of the new snapshots, a different one for each volume.
C20_SnapshotCreatorPostState ==
    [][\A k \in Instances :
          LET p == inst[k].project
              vs == AttachedVols(k)
              created == {s \in SnapIds : snaps[s] = "none" /\ snaps'[s] = "exists"}
          IN  (create_snapshots(k) /\ p # "" /\ vs # {})
                  => /\ StatusAfter(p) = "SNAPSHOTTING"
                     /\ main'[p].VolumeCount = Cardinality(vs)
                     /\ Cardinality(created) = Cardinality(vs)
                     /\ \A s \in AllSnaps \ created : snaps'[s] = snaps[s]
                     /\ \A v \in vs :
                           /\ <<p, v>> \in DOMAIN meta'
                           /\ meta'[<<p, v>>].State = "PENDING"
                           /\ meta'[<<p, v>>].instanceId = k
                           /\ meta'[<<p, v>>].deviceName = DeviceOf(v)
                           /\ meta'[<<p, v>>].snapshotId \in created
                     /\ \A v, w \in vs :
                           v # w => meta'[<<p, v>>].snapshotId
                                        # meta'[<<p, w>>].snapshotId
                     /\ MetaKeysOf(meta', p) = MetaKeysOf(meta, p)
                                                   \cup ({p} \X vs)]_vars

\* create_snapshots has run for an instance with two volumes: SNAPSHOTTING,
\* VolumeCount 2, two PENDING rows with different snapshots and devices.
C20_Witness ==
    \E p \in DOMAIN main :
        /\ StatusOf(p) = "SNAPSHOTTING"
        /\ main[p].VolumeCount = 2
        /\ Cardinality(RowsOf(p)) = 2
        /\ \A m \in RowsOf(p) : m.State = "PENDING" /\ snaps[m.snapshotId] = "exists"
        /\ {m.deviceName : m \in RowsOf(p)} = {"/dev/sda1", "/dev/sdf"}
        /\ Cardinality({m.snapshotId : m \in RowsOf(p)}) = 2

\* ================================================================== C17
\* The Meta rows of the project's current snapshot cycle: those written for
\* the instance of the project launched last.
CycleRows(p) ==
    IF \E k \in Instances : inst[k].project = p
    THEN {m \in RowsOf(p) : m.instanceId = LastInstance(p)}
    ELSE {}

\* C17: in every reachable state in which a project's Status is SNAPSHOTTING
\* or IMAGING, the record's VolumeCount is the number of Meta rows of the
\* project's current snapshot cycle.
C17_VolumeCountInvariant ==
    \A p \in DOMAIN main :
        StatusOf(p) \in {"SNAPSHOTTING", "IMAGING"}
            => /\ "VolumeCount" \in DOMAIN main[p]
               /\ main[p].VolumeCount = Cardinality(CycleRows(p))

\* ================================================================== C16
\* A Meta row of the project's earlier cycle has survived (its delete_item
\* in mark_ready failed): the row of the volume of the earlier instance,
\* COMPLETED, with the snapshot the project's AMI was registered from.
StaleVol      == 0
StaleInstance == 0

StaleItem(p) ==
    [project |-> p, volumeId |-> StaleVol, instanceId |-> StaleInstance,
     deviceName |-> RootDevice, snapshotId |-> 1, State |-> "COMPLETED"]

InitS ==
    /\ inst = [k \in Instances |-> NoInstance]
    /\ vols = [v \in Vols |-> "none"]
    /\ \E p \in Projects :
          /\ main = put_item(EmptyTable, p,
                        [project |-> p, VolumeCount |-> 1, Status |-> "READY",
                         AMI |-> 1, RootDeviceName |-> RootDevice,
                         Username |-> ""])
          /\ meta = put_item(EmptyTable, <<p, StaleVol>>, StaleItem(p))
          /\ amis = [a \in AmiIds |->
                       IF a = BaseAmi THEN BaseImage
                       ELSE IF a = 1 THEN PriorImage(p) ELSE NoAmi]
    /\ snaps = [s \in AllSnaps |-> IF s \in {BaseSnap, 1} THEN "exists" ELSE "none"]
    /\ proc = [i \in Procs |-> IdleProc]
    /\ last = ""

SpecS == InitS /\ [][Next]_vars

\* C16: with Meta rows of an earlier cycle left over, an invocation of
\* create_image in a later cycle passes the gate, towards register_image,
\* only when every row of the later cycle is COMPLETED, and the block-device
\* mappings it has built refer to snapshots of rows of the later cycle only.
C16_StaleRowsHarmless ==
    [][\A i \in Procs :
          LET p == proc[i].project
          IN  (proc[i].pc = "count" /\ proc'[i].pc \in {"cleanup", "register"})
                  => /\ \A m \in CycleRows(p) : m.State = "COMPLETED"
                     /\ proc'[i].mapped \subseteq
                            {m.snapshotId : m \in CycleRows(p)}]_vars

\* ================================================================== C15
\* The cycle without faults, but the shutdown event of the project's
\* instance is delivered again at any point of the cycle (while the instance
\* still has its volumes), and the events of the snapshots no row names any
\* more are delivered too.
DuplicateShutdownDue(k) ==
    /\ NoneRunning
    /\ AttachedVols(k) # {}
    /\ StatusOf(inst[k].project) \in {"SNAPSHOTTING", "IMAGING"}
    /\ k = LastInstance(inst[k].project)

SupersededEventDue(s) ==
    /\ NoneRunning
    /\ snaps[s] = "exists"
    /\ SnapshotIndex(meta, s) = {}

NextD ==
    \/ NextA
    \/ \E k \in Instances : DuplicateShutdownDue(k) /\ create_snapshots(k)
    \/ \E s \in SnapIds : SupersededEventDue(s) /\ ci_mark(1, s)

SpecD == Init /\ [][NextD]_vars

\* C15: when create_snapshots is invoked again for the same shutdown at any
\* point of the cycle, the rows of the project then carry fresh snapshot ids
\* and are PENDING; an event of a snapshot that no row names finds no row
\* and changes nothing; and every invocation of create_image that found its
\* row goes the way to READY: it waits for more completions, or registers
\* the AMI and writes IMAGING (or stops in the timeout of the cleanup), it
\* never abandons and never ends with another error.
C15_DuplicateShutdownSafe ==
    /\ [][\A k \in Instances :
             (DuplicateShutdownDue(k) /\ create_snapshots(k))
                 => \A v \in AttachedVols(k) :
                       /\ meta'[<<inst[k].project, v>>].State = "PENDING"
                       /\ snaps[meta'[<<inst[k].project, v>>].snapshotId] = "none"]_vars
    /\ [][\A s \in SnapIds :
             (SupersededEventDue(s) /\ ci_mark(1, s))
                 => /\ last' = "no_meta"
                    /\ main' = main /\ meta' = meta
                    /\ amis' = amis /\ snaps' = snaps]_vars
    /\ [][\A i \in Procs :
             (proc[i].pc # "idle" /\ proc'[i].pc = "idle")
                 => last' \in {"waiting", "registered", "Timeout"}]_vars

\* ================================================================== C21
\* The cycle without faults of the other handlers, where a project's record
\* may carry a Username, a volume may lack its attachment to the instance
\* and the get_item of create_snapshots may fail.
Usernames == {"", "ubuntu"}

InitC ==
    /\ meta = EmptyTable
    /\ inst = [k \in Instances |-> NoInstance]
    /\ vols = [v \in Vols |-> "none"]
    /\ \/ /\ main = EmptyTable
          /\ snaps = [s \in AllSnaps |-> IF s = BaseSnap THEN "exists" ELSE "none"]
          /\ amis = [a \in AmiIds |-> IF a = BaseAmi THEN BaseImage ELSE NoAmi]
       \/ \E p \in Projects, u \in Usernames :
          /\ main = put_item(EmptyTable, p,
                        [project |-> p, VolumeCount |-> 1, Status |-> "READY",
                         AMI |-> 1, RootDeviceName |-> RootDevice,
                         Username |-> u])
          /\ snaps = [s \in AllSnaps |->
                        IF s \in {BaseSnap, 1} THEN "exists" ELSE "none"]
          /\ amis = [a \in AmiIds |->
                       IF a = BaseAmi THEN BaseImage
                       ELSE IF a = 1 THEN PriorImage(p) ELSE NoAmi]
    /\ proc = [i \in Procs |-> IdleProc]
    /\ last = ""

NextC ==
    \/ NextA
    \/ \E k \in Instances, missing \in SUBSET Vols, read_ok \in BOOLEAN :
          ShutdownEventDue(k) /\ CreateSnapshots(k, missing, read_ok)

SpecC == InitC /\ [][NextC]_vars

\* C21: when a volume of the instance has no attachment to the instance,
\* create_snapshots raises its ValueError; it has written the record and a row for each volume that
\* comes before the first such volume, and no row for that volume or for a
\* volume after it: their rows, if any, are as they were.
C21_MissingAttachmentFatal ==
    [][\A k \in Instances, missing \in SUBSET Vols, read_ok \in BOOLEAN :
          LET p == inst[k].project
              vs == AttachedVols(k)
          IN  (/\ CreateSnapshots(k, missing, read_ok)
               /\ missing # {}
               /\ p # "")
                  => /\ last' = "MissingAttachment"
                     /\ StatusAfter(p) = "SNAPSHOTTING"
                     /\ \A v \in vs :
                           IF \A w \in missing : v < w
                           THEN /\ <<p, v>> \in DOMAIN meta'
                                /\ meta'[<<p, v>>].State = "PENDING"
                                /\ snaps[meta'[<<p, v>>].snapshotId] = "none"
                           ELSE IF <<p, v>> \in DOMAIN meta
                                THEN /\ <<p, v>> \in DOMAIN meta'
                                     /\ meta'[<<p, v>>] = meta[<<p, v>>]
                                ELSE <<p, v>> \notin DOMAIN meta']_vars

\* The second of two volumes had no attachment: the record is SNAPSHOTTING
\* with VolumeCount 2, only the first volume has a row, and two snapshots
\* were created.
C21_Witness ==
    \E p \in DOMAIN main :
        /\ last = "MissingAttachment"
        /\ StatusOf(p) = "SNAPSHOTTING"
        /\ main[p].VolumeCount = 2
        /\ Cardinality(RowsOf(p)) = 1
        /\ \A m \in RowsOf(p) : m.deviceName = RootDevice /\ m.State = "PENDING"
        /\ \E s \in SnapIds : snaps[s] = "exists" /\ SnapshotIndex(meta, s) = {}
                              /\ \A m \in RowsOf(p) : s > m.snapshotId

\* ================================================================== C22
\* C22: the record create_snapshots writes over an existing record carries
\* the Username of the record it replaces; when there was no record, or the
\* record had no Username, or the get_item failed, it carries "" and is
\* written all the same.
C22_UsernamePreserved ==
    [][\A k \in Instances, missing \in SUBSET Vols, read_ok \in BOOLEAN :
          LET p == inst[k].project
          IN  (/\ CreateSnapshots(k, missing, read_ok)
               /\ p # "" /\ AttachedVols(k) # {})
                  => /\ p \in DOMAIN main'
                     /\ StatusAfter(p) = "SNAPSHOTTING"
                     /\ main'[p].Username =
                           IF /\ read_ok
                              /\ p \in DOMAIN main
                              /\ "Username" \in DOMAIN main[p]
                           THEN main[p].Username ELSE ""]_vars

\* create_snapshots has replaced the record of a project with a Username:
\* SNAPSHOTTING, and the Username is still there.
C22_Witness ==
    \E p \in DOMAIN main :
        /\ StatusOf(p) = "SNAPSHOTTING"
        /\ main[p].Username = "ubuntu"

\* ================================================================== C23
\* C23: create_image for a snapshot id that no Meta row carries, mark_ready
\* for an AMI id that no project record names, and delete_volume for a
\* volume id that no Meta row carries return normally and leave both
\* tables, the AMIs, the snapshots, the volumes and the instances as they
\* were.
C23_AbsenceChangesNothing ==
    /\ [][\A i \in Procs, s \in SnapIds :
             (/\ \A key \in DOMAIN meta : meta[key].snapshotId # s
              /\ ci_mark(i, s))
                 => /\ last' = "no_meta" /\ last' \in Returns
                    /\ proc' = proc
                    /\ UNCHANGED <<main, meta, amis, snaps, vols, inst>>]_vars
    /\ [][\A a \in AmiIds :
             (/\ \A p \in DOMAIN main :
                    "AMI" \in DOMAIN main[p] => main[p].AMI # a
              /\ \E failed \in SUBSET DOMAIN meta : mark_ready(a, failed))
                 => UNCHANGED <<main, meta, amis, snaps, vols, inst>>]_vars
    /\ [][\A v \in Vols :
             (/\ \A key \in DOMAIN meta : meta[key].volumeId # v
              /\ delete_volume(v))
                 => UNCHANGED <<main, meta, amis, snaps, vols, inst>>]_vars

\* A volume that has no Meta row is available while another volume of the
\* project has one (its event finds nothing), and an event of a snapshot
\* without a row has just been handled.
C23_Witness ==
    /\ last = "no_meta"
    /\ \E v \in Vols :
          /\ vols[v] = "available"
          /\ \A key \in DOMAIN meta : meta[key].volumeId # v
    /\ meta # EmptyTable

\* ================================================================== C24
\* cli.py delete_project: the project's record is deleted when it exists,
\* no instance of the project is running or shutting down and the Status is
\* not SNAPSHOTTING or IMAGING (project_in_use); the Meta rows stay. When
\* the operator confirms, delete_ami_and_snapshots deregisters the AMI the
\* record named (if describe_images returns it; a ClientError of
\* deregister_image ends it) and deletes its snapshots.
project_in_use(p) ==
    \/ \E k \in Instances : inst[k].project = p
                            /\ inst[k].state \in {"running", "shutting-down"}
    \/ StatusOf(p) \in {"LAUNCHING", "SNAPSHOTTING", "IMAGING"}

delete_ami_and_snapshots(ami_id) ==
    LET amis1 == [amis EXCEPT ![ami_id].st = "deregistered"]
    IN  IF amis[ami_id].st = "registered"
        THEN /\ amis' = amis1
             /\ snaps' = [s \in AllSnaps |->
                            IF s \in amis[ami_id].snaps /\ SnapshotDeletable(s, amis1)
                            THEN "deleted" ELSE snaps[s]]
        ELSE UNCHANGED <<amis, snaps>>

delete_project(p, also_ami) ==
    /\ p \in DOMAIN main
    /\ ~project_in_use(p)
    /\ main' = delete_item(main, p)
    /\ IF also_ami /\ "AMI" \in DOMAIN main[p]
       THEN delete_ami_and_snapshots(main[p].AMI)
       ELSE UNCHANGED <<amis, snaps>>
    /\ last' = ""
    /\ UNCHANGED <<meta, inst, vols, proc>>

\* The cycle without faults of create_snapshots, create_image and
\* mark_ready, with the volume events delivered and projects deleted at any
\* time.
NextP ==
    \/ NextA
    \/ \E v \in Vols : delete_volume(v)
    \/ \E p \in Projects, also_ami \in BOOLEAN : delete_project(p, also_ami)

SpecP == Init /\ [][NextP]_vars

\* C24: when the Meta row of the event's snapshot exists and the project
\* has no record, create_image marks the row COMPLETED and then, finding no
\* record, returns normally: no AMI is registered or deregistered, no
\* snapshot is deleted and no record is created.
C24_MissingMainRecord ==
    /\ [][\A i \in Procs, s \in SnapIds :
             (/\ ci_mark(i, s)
              /\ \E key \in DOMAIN meta :
                    SnapshotIndex(meta, s) = {key} /\ key[1] \notin DOMAIN main)
                 => /\ \A key \in SnapshotIndex(meta, s) :
                          /\ key \in DOMAIN meta'
                          /\ meta'[key].State = "COMPLETED"
                          /\ proc'[i].project = key[1]
                    /\ proc'[i].pc = "count"
                    /\ UNCHANGED <<main, amis, snaps>>]_vars
    /\ [][\A i \in Procs :
             (/\ proc[i].pc = "count" /\ proc'[i].pc # "count"
              /\ proc[i].project \notin DOMAIN main)
                 => /\ last' = "no_main" /\ last' \in Returns
                    /\ proc'[i] = IdleProc
                    /\ UNCHANGED <<main, meta, amis, snaps>>]_vars

\* The project was deleted while its row was PENDING; the snapshot's event
\* has just been handled: the row is COMPLETED and there is no record.
C24_Witness ==
    /\ last = "no_main"
    /\ main = EmptyTable
    /\ \E key \in DOMAIN meta : meta[key].State = "COMPLETED"

\* ================================================================== C25
\* C25: a delivery to mark_ready of an AMI id that a project record names
\* deletes every Meta row of that project but those whose delete_item
\* raised, which stay as they were; the rows of other projects stay; and
\* the project's Status is READY afterwards whether or not a delete failed,
\* the rest of the record being as it was.
C25_BestEffortCleanup ==
    [][\A a \in AmiIds :
          ScanMainByAmi(a) # {}
              => LET p == ScannedProject(main, a)
                 IN  \A failed \in SUBSET MetaKeysOf(meta, p) :
                         mark_ready(a, failed)
                             => /\ StatusAfter(p) = "READY"
                                /\ MetaKeysOf(meta', p) = failed
                                /\ \A key \in DOMAIN meta \ (MetaKeysOf(meta, p) \ failed) :
                                       /\ key \in DOMAIN meta'
                                       /\ meta'[key] = meta[key]
                                /\ DOMAIN main' = DOMAIN main
                                /\ \A attr \in DOMAIN main[p] \ {"Status"} :
                                       /\ attr \in DOMAIN main'[p]
                                       /\ main'[p][attr] = main[p][attr]]_vars

\* mark_ready has run for the AMI of a cycle with two volumes and one of its
\* two deletes failed: the project is READY and one row is left.
C25_Witness ==
    \E p \in DOMAIN main :
        /\ StatusOf(p) = "READY"
        /\ main[p].VolumeCount = 2
        /\ Cardinality(RowsOf(p)) = 1
        /\ \E k \in Instances : inst[k].project = p /\ inst[k].nvols = 2
        /\ CycleAmis(p) = {main[p].AMI}

\* ================================================================== C26
\* C26: in every reachable state in which no invocation of create_image is
\* in progress, every AMI that create_image has registered (it carries
\* ManagedBy = managed_by_tag) and that is still registered is the AMI the
\* record of its project names.
C26_NoLeakedAmis ==
    NoneRunning
        => \A a \in AmiIds \ {BaseAmi} :
               (amis[a].st = "registered" /\ amis[a].ManagedBy = managed_by_tag)
                   => /\ amis[a].project \in DOMAIN main
                      /\ "AMI" \in DOMAIN main[amis[a].project]
                      /\ main[amis[a].project].AMI = a

\* ================================================================== C27
\* C27: a delivery to create_image of the event of a snapshot whose row is
\* COMPLETED already (the event has been delivered before), while fewer
\* rows of the project than VolumeCount are COMPLETED, changes nothing: the
\* update_item leaves the row as it is, and the invocation returns at the
\* gate with both tables, the AMIs, the snapshots, the volumes and the
\* instances as they were.
C27_IdempotentMarking ==
    /\ [][\A i \in Procs, s \in SnapIds :
             (/\ \E key \in DOMAIN meta :
                    SnapshotIndex(meta, s) = {key} /\ meta[key].State = "COMPLETED"
              /\ ci_mark(i, s))
                 => /\ proc'[i].pc = "count"
                    /\ UNCHANGED <<main, meta, amis, snaps, vols, inst>>]_vars
    /\ [][\A i \in Procs :
             LET p == proc[i].project
             IN  (/\ proc[i].pc = "count" /\ proc'[i].pc # "count"
                  /\ p \in DOMAIN main
                  /\ "VolumeCount" \in DOMAIN main[p]
                  /\ CompletedCount(RowsOf(p)) < main[p].VolumeCount)
                     => /\ last' = "waiting"
                        /\ proc'[i] = IdleProc
                        /\ UNCHANGED <<main, meta, amis, snaps, vols, inst>>]_vars

\* The event of the first of two snapshots has been handled (the invocation
\* returned at the gate) and has been delivered again: the second
\* invocation has found the row, the only one COMPLETED.
C27_Witness ==
    \E p \in DOMAIN main, i \in Procs :
        /\ last = "waiting"
        /\ proc[i].pc = "count"
        /\ proc[i].project = p
        /\ main[p].VolumeCount = 2
        /\ Cardinality(RowsOf(p)) = 2
        /\ CompletedCount(RowsOf(p)) = 1
        /\ \A j \in Procs \ {i} : proc[j].pc = "idle"

\* ================================================================== C28
\* C28: a project that has no record gets one only from the launch (which
\* writes RUNNING) or from create_snapshots (which writes SNAPSHOTTING):
\* no invocation of create_image, mark_ready or delete_volume brings a
\* record into existence.
C28_OnlyCreatorCreatesRecords ==
    [][\A p \in Projects :
          (p \notin DOMAIN main /\ p \in DOMAIN main')
              => /\ StatusAfter(p) \in {"RUNNING", "SNAPSHOTTING"}
                 /\ \/ inst' # inst
                    \/ \E k \in Instances : create_snapshots(k)]_vars

\* ================================================================== C29
\* The record of p after a step differs from the one before in the
\* attributes attrs at most.
OnlyChanged(p, attrs) ==
    /\ p \in DOMAIN main'
    /\ DOMAIN main[p] \subseteq DOMAIN main'[p]
    /\ DOMAIN main'[p] \subseteq DOMAIN main[p] \cup attrs
    /\ \A attr \in DOMAIN main[p] \ attrs : main'[p][attr] = main[p][attr]

\* C29: no handler deletes a project record; a step of a create_image
\* invocation changes the AMI and the Status of an existing record and
\* nothing else, and mark_ready and delete_volume change its Status and
\* nothing else: VolumeCount, RootDeviceName, Username and the other
\* attributes stay as they were.
C29_RecordFrame ==
    /\ [][DOMAIN main \subseteq DOMAIN main']_vars
    /\ [][\A i \in Procs :
             proc'[i] # proc[i]
                 => \A p \in DOMAIN main : OnlyChanged(p, {"AMI", "Status"})]_vars
    /\ [][\A a \in AmiIds :
             (ScanMainByAmi(a) # {} /\ main' # main
              /\ \E failed \in SUBSET MetaKeysOf(meta, ScannedProject(main, a)) :
                    mark_ready(a, failed))
                 => \A p \in DOMAIN main : OnlyChanged(p, {"Status"})]_vars
    /\ [][\A v \in Vols :
             (main' # main /\ delete_volume(v))
                 => \A p \in DOMAIN main : OnlyChanged(p, {"Status"})]_vars

\* A cycle with two volumes has ended and the instance has terminated: the
\* record, written by create_image and then by mark_ready, is READY and
\* still holds the VolumeCount, RootDeviceName and Username that
\* create_snapshots wrote.
C29_Witness ==
    \E p \in DOMAIN main, k \in Instances :
        /\ inst[k].project = p /\ inst[k].state = "terminated"
        /\ StatusOf(p) = "READY"
        /\ main[p].AMI # inst[k].image_id
        /\ main[p].VolumeCount = 2
        /\ main[p].RootDeviceName = RootDevice
        /\ "Username" \in DOMAIN main[p]

\* ================================================================== C30
\* The events as the handlers receive them: detail carries a state (or
\* result) and a resource id, either of which may be anything, the id may be
\* missing.
NoId == -1                         \* detail.get(...) is None or empty
InstanceStates  == {"running", "shutting-down", "terminated"}
SnapshotResults == {"succeeded", "failed"}
ImageStates     == {"available", "failed"}
VolumeStates    == {"available", "in-use"}

\* The value each handler acts on.
Trigger == [create_snapshots |-> "shutting-down", create_image |-> "succeeded",
            mark_ready |-> "available", delete_volume |-> "available"]

\* Variant: the handler looks at the id only.
Filtered_IdOnly(handler, value, id) == id = NoId

\* if state != <trigger>: return;  if not <id>: log a warning, return
Filtered(handler, value, id) == value # Trigger[handler] \/ id = NoId

\* The return at the filter: nothing has been read or written.
Ignore ==
    /\ last' = "ignored"
    /\ UNCHANGED <<main, meta, inst, vols, snaps, amis, proc>>

\* The handlers on an event; an event that passes the filter is one of the
\* cycle's (for delete_volume: of a volume that is detached).
on_instance_event(state, instance_id) ==
    IF Filtered("create_snapshots", state, instance_id)
    THEN Ignore
    ELSE ShutdownEventDue(instance_id) /\ create_snapshots(instance_id)

on_snapshot_event(result, snap_arn) ==
    IF Filtered("create_image", result, snap_arn)
    THEN Ignore
    ELSE SnapshotEventDue(snap_arn) /\ ci_mark(1, snap_arn)

on_image_event(state, ami_id) ==
    IF Filtered("mark_ready", state, ami_id)
    THEN Ignore
    ELSE AmiEventDue(ami_id) /\ mark_ready(ami_id, {})

on_volume_event(state, vol_id) ==
    IF Filtered("delete_volume", state, vol_id)
    THEN Ignore
    ELSE NoneRunning /\ delete_volume(vol_id)

NextE ==
    \/ \E p \in Projects, n \in 1..MaxVols : Launch(p, n)
    \/ \E k \in Instances : Shutdown(k)
    \/ \E k \in Instances : Terminate(k)
    \/ \E a \in AmiIds : AmiVanish(a)
    \/ \E state \in InstanceStates, k \in Instances \cup {NoId} :
          on_instance_event(state, k)
    \/ \E result \in SnapshotResults, s \in SnapIds \cup {NoId} :
          on_snapshot_event(result, s)
    \/ \E state \in ImageStates, a \in AmiIds \cup {NoId} :
          on_image_event(state, a)
    \/ \E state \in VolumeStates, v \in Vols \cup {NoId} :
          on_volume_event(state, v)
    \/ ci_count(1, "answer")
    \/ ci_cleanup(1)
    \/ ci_poll(1, "answer")
    \/ \E accepted \in BOOLEAN : ci_register(1, accepted)
    \/ ci_updatemain(1)

SpecE == Init /\ [][NextE]_vars

\* C30: a handler that receives an event whose state (result) is not its
\* trigger value, or that carries no resource id, returns normally and
\* leaves both tables, the instances, volumes, snapshots and images and the
\* invocations in progress as they were; this whatever the tables hold.
C30_TriggerFiltering ==
    /\ [][\A state \in InstanceStates, k \in Instances \cup {NoId} :
             ((state # "shutting-down" \/ k = NoId) /\ on_instance_event(state, k))
                 => /\ UNCHANGED <<main, meta, inst, vols, snaps, amis, proc>>
                    /\ last' \notin Exceptions \cup {"MissingAttachment"}]_vars
    /\ [][\A result \in SnapshotResults, s \in SnapIds \cup {NoId} :
             ((result # "succeeded" \/ s = NoId) /\ on_snapshot_event(result, s))
                 => /\ UNCHANGED <<main, meta, inst, vols, snaps, amis, proc>>
                    /\ last' \notin Exceptions \cup {"MissingAttachment"}]_vars
    /\ [][\A state \in ImageStates, a \in AmiIds \cup {NoId} :
             ((state # "available" \/ a = NoId) /\ on_image_event(state, a))
                 => /\ UNCHANGED <<main, meta, inst, vols, snaps, amis, proc>>
                    /\ last' \notin Exceptions \cup {"MissingAttachment"}]_vars
    /\ [][\A state \in VolumeStates, v \in Vols \cup {NoId} :
             ((state # "available" \/ v = NoId) /\ on_volume_event(state, v))
                 => /\ UNCHANGED <<main, meta, inst, vols, snaps, amis, proc>>
                    /\ last' \notin Exceptions \cup {"MissingAttachment"}]_vars

\* A handler has returned at its filter while a cycle was under way: the
\* project is SNAPSHOTTING with a PENDING row, which an event that passed
\* the filter of create_image would have completed.
C30_Witness ==
    /\ last = "ignored"
    /\ \E p \in DOMAIN main :
          /\ StatusOf(p) = "SNAPSHOTTING"
          /\ \E key \in MetaKeysOf(meta, p) : meta[key].State = "PENDING"

\* ================================================== cleanup_ami_and_snapshots
\* The function step by step, with the EC2 calls it makes in the order it
\* makes them. The invocation's locals are in proc[1]: ami_id, the
\* snapshot_ids collected (a list), the position idx in the delete loop, the
\* polls made, the calls so far and the way it ended.
\* image.block_device_mappings as a list: per mapping the SnapshotId, or
\* NoId for a mapping without Ebs.SnapshotId.
RECURSIVE NoRepeat(_)
NoRepeat(seq) ==
    \/ seq = <<>>
    \/ /\ NoRepeat(Tail(seq))
       /\ Head(seq) = NoId \/ \A n \in 1..Len(Tail(seq)) : Tail(seq)[n] # Head(seq)

MappingLists ==
    {seq \in UNION {[1..n -> SnapIds \cup {NoId}] : n \in 0..MaxVols} : NoRepeat(seq)}

IsSnapshotId(snap) == snap # NoId

\* for mapping in bdms: snap = ebs.get("SnapshotId"); if snap: append
CollectSnapshotIds(bdms) == SelectSeq(bdms, IsSnapshotId)

CleanupAmi == 1

CleanupLocals(pc, snapshot_ids, idx, attempts, calls, result) ==
    [pc |-> pc, ami_id |-> CleanupAmi, snapshot_ids |-> snapshot_ids, idx |-> idx,
     attempts |-> attempts, calls |-> calls, result |-> result]

InitK ==
    /\ main = EmptyTable
    /\ meta = EmptyTable
    /\ inst = [k \in Instances |-> NoInstance]
    /\ vols = [v \in Vols |-> "none"]
    /\ \E bdms \in MappingLists :
          /\ amis = [a \in AmiIds |->
                       IF a = BaseAmi THEN BaseImage
                       ELSE IF a = CleanupAmi
                       THEN [st |-> "registered",
                             snaps |-> {bdms[n] : n \in 1..Len(bdms)} \ {NoId},
                             ManagedBy |-> managed_by_tag, project |-> "p1",
                             bdms |-> bdms]
                       ELSE NoAmi]
          /\ snaps = [s \in AllSnaps |->
                        IF s = BaseSnap \/ \E n \in 1..Len(bdms) : bdms[n] = s
                        THEN "exists" ELSE "none"]
    /\ proc = [i \in Procs |->
                 IF i = 1 THEN CleanupLocals("collect", <<>>, 1, 0, <<>>, "")
                 ELSE IdleProc]
    /\ last = ""

CleanupStep(locals) ==
    /\ proc' = [proc EXCEPT ![1] = locals]
    /\ last' = locals.result

\* bdms = image.block_device_mappings and the loop that collects the ids
ck_collect ==
    LET l == proc[1]
    IN  /\ l.pc = "collect"
        /\ CleanupStep([l EXCEPT !.pc = "deregister",
                                 !.snapshot_ids = CollectSnapshotIds(amis[l.ami_id].bdms)])
        /\ UNCHANGED <<main, meta, inst, vols, snaps, amis>>

\* image.deregister()
ck_deregister ==
    LET l == proc[1]
    IN  /\ l.pc = "deregister"
        /\ amis' = [amis EXCEPT ![l.ami_id].st = "deregistered"]
        /\ CleanupStep([l EXCEPT !.pc = "delete",
                                 !.calls = Append(@, <<"deregister", l.ami_id>>)])
        /\ UNCHANGED <<main, meta, inst, vols, snaps>>

\* Variant: a failed delete ends the loop.
AfterDelete_StopOnFailure(idx, n, ok) == IF ok THEN idx + 1 ELSE n + 1

\* The position in snapshot_ids (of length n) after the delete attempt at
\* idx: the for loop goes on to the next id whether snap.delete() raised.
AfterDelete(idx, n, ok) == idx + 1

\* One round of the delete loop: snap.delete(), which raises (ok = FALSE)
\* or deletes the snapshot; the exception is logged.
ck_delete(ok) ==
    LET l == proc[1]
        snap_id == l.snapshot_ids[l.idx]
    IN  /\ l.pc = "delete"
        /\ l.idx <= Len(l.snapshot_ids)
        /\ ok => SnapshotDeletable(snap_id, amis)
        /\ snaps' = IF ok THEN [snaps EXCEPT ![snap_id] = "deleted"] ELSE snaps
        /\ CleanupStep([l EXCEPT !.idx = AfterDelete(l.idx, Len(l.snapshot_ids), ok),
                                 !.calls = Append(@, <<"delete", snap_id>>)])
        /\ UNCHANGED <<main, meta, inst, vols, amis>>

\* The delete loop is over.
ck_wait ==
    LET l == proc[1]
    IN  /\ l.pc = "delete"
        /\ l.idx > Len(l.snapshot_ids)
        /\ CleanupStep([l EXCEPT !.pc = "poll"])
        /\ UNCHANGED <<main, meta, inst, vols, snaps, amis>>

\* Variant: one poll more than cleanup_max_attempts.
PollOutcome_OneMore(attempts, resp, visible) ==
    IF resp # "answer" THEN "ClientError"
    ELSE IF ~visible THEN "complete"
    ELSE IF attempts > cleanup_max_attempts THEN "Timeout" ELSE ""

\* What the poll numbered attempts (1-based) leads to: the ClientError of
\* describe_images propagates; `if not images: break` ends the loop and the
\* function returns; the for loop's else clause raises the RuntimeError when
\* range(cleanup_max_attempts) is used up; otherwise ("") the loop goes on.
PollOutcome(attempts, resp, visible) ==
    IF resp # "answer" THEN "ClientError"
    ELSE IF ~visible THEN "complete"
    ELSE IF attempts >= cleanup_max_attempts THEN "Timeout" ELSE ""

\* One round of the polling loop: describe_images(ImageIds=[ami_id]).
ck_poll(resp) ==
    LET l == proc[1]
        visible == ImageVisible(l.ami_id)
        outcome == PollOutcome(l.attempts + 1, resp, visible)
    IN  /\ l.pc = "poll"
        /\ DescribePossible(l.ami_id, resp)
        /\ CleanupStep([l EXCEPT !.pc = IF outcome = "" THEN "poll" ELSE "ended",
                                 !.attempts = @ + 1,
                                 !.result = outcome,
                                 !.calls = Append(@, <<"describe", resp, visible>>)])
        /\ UNCHANGED <<main, meta, inst, vols, snaps, amis>>

\* EC2 finishes the deregistration at a time of its own.
NextK ==
    \/ ck_collect
    \/ ck_deregister
    \/ \E ok \in BOOLEAN : ck_delete(ok)
    \/ ck_wait
    \/ \E resp \in DescribeOutcomes : ck_poll(resp)
    \/ \E a \in AmiIds : AmiVanish(a)

SpecK == InitK /\ [][NextK]_vars

\* ------------------------------------------------ views of the calls made
\* The positions in calls of the calls of one kind.
CallsOf(calls, kind) == {n \in 1..Len(calls) : calls[n][1] = kind}

\* The position of snapshot s in the mappings (0 when it is in none).
MappingOf(bdms, s) ==
    IF \E n \in 1..Len(bdms) : bdms[n] = s
    THEN CHOOSE n \in 1..Len(bdms) : bdms[n] = s
    ELSE 0

\* ================================================================== C31
\* C31: the snapshot ids are collected before the AMI is deregistered; the
\* deregistration is the first EC2 call, before any delete; the deletes are
\* of snapshots of the mappings, in mapping order and one per snapshot; when
\* the function polls (or has ended) every snapshot of the mappings has had
\* its one attempt, whether attempts failed; and an invocation that has
\* ended has polled.
C31_CleanupOrder ==
    LET l == proc[1]
        bdms == amis[l.ami_id].bdms
        deletes == CallsOf(l.calls, "delete")
    IN  /\ amis[l.ami_id].st # "registered"
           => /\ Len(l.snapshot_ids) = Cardinality(amis[l.ami_id].snaps)
              /\ \A n \in 1..Len(l.snapshot_ids) :
                    l.snapshot_ids[n] \in amis[l.ami_id].snaps
        /\ l.calls # <<>> => l.calls[1] = <<"deregister", l.ami_id>>
        /\ CallsOf(l.calls, "deregister") \subseteq {1}
        /\ \A n \in deletes : MappingOf(bdms, l.calls[n][2]) > 0
        /\ \A m, n \in deletes :
              m < n => MappingOf(bdms, l.calls[m][2]) < MappingOf(bdms, l.calls[n][2])
        /\ \A m \in CallsOf(l.calls, "describe"), n \in deletes : n < m
        /\ l.pc \in {"poll", "ended"}
              => {l.calls[n][2] : n \in deletes} = amis[l.ami_id].snaps
        /\ l.pc = "ended" => CallsOf(l.calls, "describe") # {}

\* The AMI had two snapshots; the delete of the first failed (the snapshot
\* still exists), the second was deleted, and the function has polled.
C31_Witness ==
    LET l == proc[1]
    IN  /\ "calls" \in DOMAIN l
        /\ Len(l.snapshot_ids) = 2
        /\ snaps[l.snapshot_ids[1]] = "exists"
        /\ snaps[l.snapshot_ids[2]] = "deleted"
        /\ CallsOf(l.calls, "describe") # {}

\* ================================================================== C32
\* C32: the function makes at most cleanup_max_attempts polls and is over
\* once it has made that many; it returns exactly at the first poll that
\* returns no image; it raises the timeout error exactly when it has made
\* cleanup_max_attempts polls and each of them returned the image.
C32_BoundedPolling ==
    LET l == proc[1]
        polls == CallsOf(l.calls, "describe")
        answered(n) == l.calls[n][2] = "answer"
        returned_image(n) == answered(n) /\ l.calls[n][3]
        no_image(n) == answered(n) /\ ~l.calls[n][3]
    IN  /\ Cardinality(polls) <= cleanup_max_attempts
        /\ Cardinality(polls) = l.attempts
        /\ Cardinality(polls) = cleanup_max_attempts => l.pc = "ended"
        /\ l.result = "complete"
              <=> \E n \in polls : /\ no_image(n)
                                   /\ \A m \in polls : m <= n
                                   /\ \A m \in polls : m < n => returned_image(m)
        /\ (\E n \in polls : no_image(n)) => l.result = "complete"
        /\ l.result = "Timeout"
              <=> /\ Cardinality(polls) = cleanup_max_attempts
                  /\ \A n \in polls : returned_image(n)
        /\ l.pc = "ended" <=> l.result # ""

\* The function has returned at its last poll, cleanup_max_attempts polls
\* made: the earlier ones returned the image, then the AMI vanished.
C32_Witness ==
    LET l == proc[1]
    IN  /\ "calls" \in DOMAIN l
        /\ l.attempts = cleanup_max_attempts
        /\ l.result = "complete"
        /\ amis[l.ami_id].st = "gone"

\* ===================================== create_image: register_image_args
\* The block-device mappings and the root device create_image registers,
\* on any Meta rows and any record of the project.
Devices == {"/dev/sda1", "/dev/sdf", "/dev/xvda"}

\* meta_table.query(KeyConditionExpression=Key("project").eq(project)): the
\* project's rows as a list, in the order of the sort key volumeId.
RECURSIVE QueryByProject(_, _)
QueryByProject(metaT, project) ==
    LET keys == MetaKeysOf(metaT, project)
        low == CHOOSE k \in keys : \A j \in keys : k[2] <= j[2]
    IN  IF keys = {} THEN <<>>
        ELSE <<metaT[low]>>
                 \o QueryByProject([k \in DOMAIN metaT \ {low} |-> metaT[k]], project)

\* make_mapping(item), without the size and type read from the snapshot
make_mapping(item) ==
    [DeviceName |-> item.deviceName, SnapshotId |-> item.snapshotId]

\* main_item.get("RootDeviceName")
RootDeviceNameOf(main_item) ==
    IF "RootDeviceName" \in DOMAIN main_item THEN main_item.RootDeviceName ELSE ""

\* Variant: the first row is the root whatever its device.
RootRow_First(all_meta, main_item) == all_meta[1]

\* root_m = next((x for x in all_meta if x["deviceName"] ==
\*                main_item.get("RootDeviceName")), all_meta[0])
RootRow(all_meta, main_item) ==
    LET matching == {n \in 1..Len(all_meta) :
                        all_meta[n].deviceName = RootDeviceNameOf(main_item)}
    IN  IF matching = {} THEN all_meta[1]
        ELSE all_meta[CHOOSE n \in matching : \A m \in matching : n <= m]

\* register_image_args
RegisterImageArgs(project, all_meta, main_item) ==
    [Name |-> <<project, "-ami">>,
     BlockDeviceMappings |-> [n \in 1..Len(all_meta) |-> make_mapping(all_meta[n])],
     RootDeviceName |-> RootRow(all_meta, main_item).deviceName]

\* The project's cycle is complete: each volume of a subset has a COMPLETED
\* row with some device name and its own snapshot, and the record has some
\* RootDeviceName or none.
InitM ==
    /\ inst = [k \in Instances |-> NoInstance]
    /\ vols = [v \in Vols |-> "none"]
    /\ amis = [a \in AmiIds |-> IF a = BaseAmi THEN BaseImage ELSE NoAmi]
    /\ proc = [i \in Procs |-> IdleProc]
    /\ last = ""
    /\ \E p \in Projects, vs \in SUBSET Vols \ {{}} :
       \E device \in [vs -> Devices], root \in Devices \cup {""} :
          /\ meta = [key \in {<<p, v>> : v \in vs} |->
                       [project |-> p, volumeId |-> key[2], instanceId |-> 1,
                        deviceName |-> device[key[2]], snapshotId |-> key[2],
                        State |-> "COMPLETED"]]
          /\ snaps = [s \in AllSnaps |->
                        IF s = BaseSnap \/ s \in vs THEN "exists" ELSE "none"]
          /\ main = put_item(EmptyTable, p,
                       IF root = ""
                       THEN [project |-> p, VolumeCount |-> Cardinality(vs),
                             Status |-> "SNAPSHOTTING"]
                       ELSE [project |-> p, VolumeCount |-> Cardinality(vs),
                             Status |-> "SNAPSHOTTING", RootDeviceName |-> root])

\* create_image from the mappings on: register_image with the arguments
\* built, and the update of the record.
rm_register(project) ==
    LET all_meta == QueryByProject(meta, project)
        args == RegisterImageArgs(project, all_meta, main[project])
        new_ami == FreshAmi
    IN  /\ project \in DOMAIN main
        /\ StatusOf(project) = "SNAPSHOTTING"
        /\ all_meta # <<>>
        /\ amis' = [amis EXCEPT ![new_ami] =
                      [st |-> "registered",
                       snaps |-> {all_meta[n].snapshotId : n \in 1..Len(all_meta)},
                       ManagedBy |-> managed_by_tag, project |-> project,
                       BlockDeviceMappings |-> args.BlockDeviceMappings,
                       RootDeviceName |-> args.RootDeviceName]]
        /\ main' = update_item(main, project, [project |-> project],
                               [AMI |-> new_ami, Status |-> "IMAGING"])
        /\ last' = "registered"
        /\ UNCHANGED <<meta, inst, vols, snaps, proc>>

NextM == \E p \in Projects : rm_register(p)

SpecM == InitM /\ [][NextM]_vars

\* ================================================================== C33
\* C33: the AMI registered has one block-device mapping per Meta row of the
\* project, with that row's device name and snapshot id, and no other; its
\* RootDeviceName is the record's RootDeviceName when a row has that device
\* name, and else the device name of the first row the query returns (the
\* row of the lowest volumeId).
C33_MappingsAndRoot ==
    \A p \in DOMAIN main :
        StatusOf(p) = "IMAGING" =>
            LET image == amis[main[p].AMI]
                bdms == image.BlockDeviceMappings
                rows == {meta[key] : key \in MetaKeysOf(meta, p)}
                first == CHOOSE r \in rows : \A q \in rows : r.volumeId <= q.volumeId
            IN  /\ Len(bdms) = Cardinality(rows)
                /\ \A r \in rows :
                      Cardinality({n \in 1..Len(bdms) :
                                      /\ bdms[n].SnapshotId = r.snapshotId
                                      /\ bdms[n].DeviceName = r.deviceName}) = 1
                /\ IF \E r \in rows : /\ "RootDeviceName" \in DOMAIN main[p]
                                      /\ r.deviceName = main[p].RootDeviceName
                   THEN image.RootDeviceName = main[p].RootDeviceName
                   ELSE image.RootDeviceName = first.deviceName

\* An AMI has been registered from two rows of which the second, not the
\* first, has the record's root device.
C33_Witness ==
    \E p \in DOMAIN main :
        /\ StatusOf(p) = "IMAGING"
        /\ "BlockDeviceMappings" \in DOMAIN amis[main[p].AMI]
        /\ Len(amis[main[p].AMI].BlockDeviceMappings) = 2
        /\ amis[main[p].AMI].BlockDeviceMappings[2].DeviceName = main[p].RootDeviceName
        /\ amis[main[p].AMI].BlockDeviceMappings[1].DeviceName # main[p].RootDeviceName
        /\ amis[main[p].AMI].RootDeviceName = main[p].RootDeviceName

\* ================================================ launch_programmatic
\* The launch on a project in any lifecycle status: what an earlier cycle
\* of the project (of an instance that is gone) has left in the record.
Statuses == {"READY", "RUNNING", "LAUNCHING", "SNAPSHOTTING", "IMAGING", "ERROR"}

InitL ==
    /\ meta = EmptyTable
    /\ inst = [k \in Instances |-> NoInstance]
    /\ vols = [v \in Vols |-> "none"]
    /\ proc = [i \in Procs |-> IdleProc]
    /\ last = ""
    /\ \/ /\ main = EmptyTable
          /\ snaps = [s \in AllSnaps |-> IF s = BaseSnap THEN "exists" ELSE "none"]
          /\ amis = [a \in AmiIds |-> IF a = BaseAmi THEN BaseImage ELSE NoAmi]
       \/ \E p \in Projects :
          /\ \/ \E status \in Statuses :
                   main = put_item(EmptyTable, p,
                             [project |-> p, VolumeCount |-> 1, Status |-> status,
                              AMI |-> 1, RootDeviceName |-> RootDevice,
                              Username |-> ""])
             \/ main = put_item(EmptyTable, p,
                          [project |-> p, VolumeCount |-> 1, AMI |-> 1,
                           RootDeviceName |-> RootDevice, Username |-> ""])
          /\ snaps = [s \in AllSnaps |->
                        IF s \in {BaseSnap, 1} THEN "exists" ELSE "none"]
          /\ amis = [a \in AmiIds |->
                       IF a = BaseAmi THEN BaseImage
                       ELSE IF a = 1 THEN PriorImage(p) ELSE NoAmi]

\* launch_programmatic: validate_project_status raises its ValueError, or
\* the instance is launched and update_instance_status writes the record.
launch_programmatic(p, n) ==
    IF LaunchAllowed(p)
    THEN Launch(p, n)
    ELSE /\ last' = "ValueError"
         /\ UNCHANGED <<main, meta, inst, vols, snaps, amis, proc>>

NextL ==
    \/ \E p \in Projects, n \in 1..MaxVols : launch_programmatic(p, n)
    \/ \E k \in Instances : Shutdown(k)
    \/ \E k \in Instances : Terminate(k)
    \/ \E a \in AmiIds : AmiVanish(a)
    \/ HandlersA

SpecL == InitL /\ [][NextL]_vars

\* ================================================================== C34
\* C34: a launch of a project goes through only when the project has no
\* record or its record's Status is READY; for every other Status and for a
\* record without Status the launch raises and changes nothing, so every
\* instance of a project starts from a project that was READY or new.
C34_LaunchGate ==
    /\ [][\A p \in Projects, n \in 1..MaxVols :
             launch_programmatic(p, n)
                 => IF p \notin DOMAIN main
                       \/ ("Status" \in DOMAIN main[p] /\ main[p].Status = "READY")
                    THEN last' # "ValueError"
                    ELSE /\ last' = "ValueError"
                         /\ UNCHANGED <<main, meta, inst, vols, snaps, amis, proc>>]_vars
    /\ [][\A k \in Instances :
             (inst[k].state = "none" /\ inst'[k].state # "none")
                 => \/ inst'[k].project \notin DOMAIN main
                    \/ /\ "Status" \in DOMAIN main[inst'[k].project]
                       /\ main[inst'[k].project].Status = "READY"]_vars

\* A launch has been refused on a project whose record is SNAPSHOTTING, and
\* no instance exists.
C34_Witness ==
    /\ last = "ValueError"
    /\ \A k \in Instances : inst[k].state = "none"
    /\ \E p \in DOMAIN main : StatusOf(p) = "SNAPSHOTTING"

\* =================================================== concurrent completions
\* The cycle with its snapshot events delivered once each (while the row is
\* PENDING) to invocations of create_image that interleave step by step;
\* every describe_images answers.
HandlersR ==
    \/ \E k \in Instances : ShutdownEventDue(k) /\ create_snapshots(k)
    \/ \E i \in Procs, s \in SnapIds :
          /\ \E key \in SnapshotIndex(meta, s) : meta[key].State = "PENDING"
          /\ ci_mark(i, s)
    \/ \E i \in Procs : ci_count(i, "answer")
    \/ \E i \in Procs : ci_cleanup(i)
    \/ \E i \in Procs : ci_poll(i, "answer")
    \/ \E i \in Procs, accepted \in BOOLEAN : ci_register(i, accepted)
    \/ \E i \in Procs : ci_updatemain(i)
    \/ \E a \in AmiIds : AmiEventDue(a) /\ mark_ready(a, {})

NextR ==
    \/ \E p \in Projects, n \in 1..MaxVols : Launch(p, n)
    \/ \E k \in Instances : Shutdown(k)
    \/ \E k \in Instances : Terminate(k)
    \/ \E a \in AmiIds : AmiVanish(a)
    \/ HandlersR

SpecR == Init /\ [][NextR]_vars

\* ================================================================== C35
\* C35: in a cycle of an instance launched from the base AMI (the prior AMI
\* exists and is not self-managed), once every one of the VolumeCount rows
\* is COMPLETED and no invocation is in progress (each snapshot event has
\* been processed to the end), an AMI of the project has been registered.
C35_NoLostCompletion ==
    \A p \in DOMAIN main :
        LET rows == {meta[key] : key \in MetaKeysOf(meta, p)}
        IN  (/\ NoneRunning
             /\ rows # {}
             /\ Cardinality(rows) = main[p].VolumeCount
             /\ \A r \in rows : r.State = "COMPLETED"
             /\ \A k \in Instances : inst[k].project = p => inst[k].image_id = BaseAmi)
                => \E a \in AmiIds \ {BaseAmi} :
                      amis[a].project = p /\ amis[a].st # "none"

\* Two invocations have interleaved on a cycle of two volumes launched from
\* the base AMI: both rows are COMPLETED, both invocations have passed the
\* gate and registered, and none is in progress any more.
C35_Witness ==
    \E p \in DOMAIN main :
        /\ NoneRunning
        /\ main[p].VolumeCount = 2
        /\ Cardinality({key \in MetaKeysOf(meta, p) : meta[key].State = "COMPLETED"}) = 2
        /\ \A k \in Instances : inst[k].project = p => inst[k].image_id = BaseAmi
        /\ Cardinality({a \in AmiIds \ {BaseAmi} : amis[a].project = p
                                                   /\ amis[a].st # "none"}) = 2

\* ================================================================== C36
\* C36: under any sequence of events, a Meta row that a step deletes is
\* COMPLETED: no row of a snapshot still in progress is ever deleted.
C36_NoPendingRowDeleted ==
    [][\A key \in DOMAIN meta :
          key \notin DOMAIN meta' => meta[key].State = "COMPLETED"]_vars

\* ================================================== retry after a timeout
\* The cleanup of invocation 1 has timed out on project p: the old AMI is
\* deregistered, the record still names it and is SNAPSHOTTING with every
\* row COMPLETED, and nothing is in progress.
TimedOut(p) ==
    /\ NoneRunning
    /\ StatusOf(p) = "SNAPSHOTTING"
    /\ GateOpen(p)
    /\ "AMI" \in DOMAIN main[p]
    /\ amis[main[p].AMI].st \in {"deregistered", "gone"}

\* The snapshot event whose invocation raised the timeout error is
\* delivered again once the old AMI has vanished.
RetryDue(s) ==
    \E key \in SnapshotIndex(meta, s) :
        /\ meta[key].State = "COMPLETED"
        /\ TimedOut(key[1])
        /\ amis[main[key[1]].AMI].st = "gone"

NextQ ==
    \/ NextA
    \/ \E s \in SnapIds : RetryDue(s) /\ ci_mark(1, s)

SpecQ == Init /\ [][NextQ]_vars

\* ================================================================== C37
\* C37: the invocation that retries a snapshot event after the timeout of
\* the cleanup, the old AMI having vanished, goes on from its describe of
\* the old AMI to register the replacement AMI.
C37_RetryRegisters ==
    [][\A i \in Procs :
          (/\ proc[i].pc = "count"
           /\ proc'[i] # proc[i]
           /\ proc[i].project \in DOMAIN main
           /\ "AMI" \in DOMAIN main[proc[i].project]
           /\ amis[main[proc[i].project].AMI].st = "gone")
              => proc'[i].pc = "register"]_vars

\* ================================================================== C38
\* C38: a step in which create_snapshots raises its missing-attachment
\* error leaves the project record, the Meta rows and the snapshots as they
\* were.
C38_FaultChangesNothing ==
    [][last' = "MissingAttachment"
          => main' = main /\ meta' = meta /\ snaps' = snaps]_vars

\* ======================================================= record overwrite
\* The record of a project that has been through a cycle carries what the
\* launch and the DNS setup wrote besides: any of InstanceId and CNAMEDomain,
\* and some Username.
ForeignAttributes == {"InstanceId", "CNAMEDomain"}

WithAttributes(item, attrs) ==
    [a \in DOMAIN item \cup attrs |-> IF a \in DOMAIN item THEN item[a] ELSE "old"]

InitW ==
    /\ meta = EmptyTable
    /\ inst = [k \in Instances |-> NoInstance]
    /\ vols = [v \in Vols |-> "none"]
    /\ proc = [i \in Procs |-> IdleProc]
    /\ last = ""
    /\ \E p \in Projects, attrs \in SUBSET ForeignAttributes, username \in Usernames :
          /\ main = put_item(EmptyTable, p,
                       WithAttributes([project |-> p, VolumeCount |-> 1,
                                       Status |-> "READY", AMI |-> 1,
                                       RootDeviceName |-> RootDevice,
                                       Username |-> username], attrs))
          /\ snaps = [s \in AllSnaps |->
                        IF s \in {BaseSnap, 1} THEN "exists" ELSE "none"]
          /\ amis = [a \in AmiIds |->
                       IF a = BaseAmi THEN BaseImage
                       ELSE IF a = 1 THEN PriorImage(p) ELSE NoAmi]

SpecW == InitW /\ [][NextA]_vars

\* ================================================================== C39
\* C39: the record create_snapshots has written holds exactly the attributes
\* project, VolumeCount, Status, AMI, RootDeviceName, Architecture,
\* VirtualizationType, LastInstanceType, LastKeyPair and Username: nothing
\* else the record held before, such as CNAMEDomain or InstanceId, is left.
C39_WholeRecordOverwrite ==
    [][\A k \in Instances :
          (main' # main /\ ShutdownEventDue(k) /\ create_snapshots(k))
              => DOMAIN main'[inst[k].project] =
                    {"project", "VolumeCount", "Status", "AMI", "RootDeviceName",
                     "Architecture", "VirtualizationType", "LastInstanceType",
                     "LastKeyPair", "Username"}]_vars

\* create_snapshots has replaced the record of a project that had been
\* through a cycle: the record is SNAPSHOTTING with the rows PENDING, it has
\* the attributes of the instance and the Username of the record replaced,
\* and neither CNAMEDomain nor InstanceId.
C39_Witness ==
    \E p \in DOMAIN main :
        /\ StatusOf(p) = "SNAPSHOTTING"
        /\ "LastKeyPair" \in DOMAIN main[p]
        /\ "CNAMEDomain" \notin DOMAIN main[p]
        /\ "InstanceId" \notin DOMAIN main[p]
        /\ main[p].Username = "ubuntu"
        /\ \E key \in MetaKeysOf(meta, p) : meta[key].State = "PENDING"

\* ================================================================== C40
\* C40: in every state the four handlers reach (nothing deletes project
\* records), the project of each Meta row has a record in the Main table.
C40_RowsHaveRecord ==
    \A key \in DOMAIN meta : key[1] \in DOMAIN main

\* mark_ready has set the project READY while a delete_item failed: a row
\* is left, and the record it belongs to is there.
C40_Witness ==
    \E key \in DOMAIN meta :
        /\ key[1] \in DOMAIN main
        /\ StatusOf(key[1]) = "READY"
        /\ meta[key].State = "COMPLETED"

====
